---------------------------- MODULE Spec2Model ----------------------------
(***************************************************************************)
(* MTG Draft Simulator (App.js): the draft engine as a state machine.      *)
(*                                                                         *)
(* Cards are identified by their position in Catalog; a pack, a drafted   *)
(* list and a sideboard are sequences of card identifiers.  Scores are     *)
(* kept multiplied by 10 so that the factors 1.5, 0.8, 0.7 and 0.5 of the  *)
(* source stay integers.                                                   *)
(***************************************************************************)
EXTENDS Integers, Sequences, FiniteSets, TLC

VARIABLES
    cards,              \* useState([]): the loaded pool (identifiers)
    players,            \* useState([]): the 8 seats, or <<>> before a draft
    currentRound,       \* useState(1)
    currentPackIndex,   \* useState(0)
    draftComplete,      \* useState(false)
    selectedSet,        \* useState('dmu')
    loadingCards,       \* useState(false), true from the first effect on
    draftHistory,       \* useState([]): undo snapshots
    suggestedCardId,    \* useState(null); 0 stands for null
    cardStats,          \* useState({}): name -> win rates
    colorPairStats,     \* useState({}): label -> win rate
    scryfall,           \* the card list the card API serves for each set code
    fetches,            \* fetchCards calls awaiting axios, per set code
    changes,            \* number of set changes made so far (bounded)
    moves,              \* number of sideboard moves and sorts so far (bounded)
    pool,               \* pack generator runs: the pool handed to generatePack
    pack,               \* pack generator runs: the pack it returned
    result,             \* function runs: the call made and the value it returned
    builtDeck           \* useState([]): the cards selected for the deck

vars == <<cards, players, currentRound, currentPackIndex, draftComplete,
          selectedSet, loadingCards, draftHistory, suggestedCardId,
          cardStats, colorPairStats, scryfall, fetches, changes, moves,
          pool, pack, result, builtDeck>>

-----------------------------------------------------------------------------
(* Bounds of the model *)

\* set changes the user makes in one run
MaxChanges == 1
\* sideboard moves and drafted-deck sorts the user makes in one run
MaxMoves == 2
\* outcomes of the random draws of initializeDraft that are explored
NumSeeds == 2
\* long-pack runs: picks made before the run is cut off
MaxDepth == 7
\* long-pack runs: the human clicks one of the first MaxChoice cards shown
MaxChoice == 2
\* pack generator runs: attempts of generatePack for which draws are given
MaxAttempts == 2
\* updatePlayerColors runs: the longest list of drafted cards
MaxDrafted == 3
\* deck building: commands given after the draft
MaxDeckMoves == 4
\* cards put into the built deck before the set is changed
MaxBuilt == 2

(* Program constants *)

NumOpponents == 7
NumRounds == 3
HistoryCap == 5
UncommonSlots == 3
CommonSlots == 10
TotalLandsNeeded == 17

NumPlayers == NumOpponents + 1

-----------------------------------------------------------------------------
(* Generic helpers *)

Min(a, b) == IF a < b THEN a ELSE b
Max(a, b) == IF a > b THEN a ELSE b

\* Array.prototype.includes
Includes(s, x) == \E i \in 1..Len(s) : s[i] = x

\* elements of a sequence as a set
Range(s) == {s[i] : i \in 1..Len(s)}

\* Array.prototype.slice(-n): the last n elements
LastN(s, n) == IF Len(s) <= n THEN s ELSE SubSeq(s, Len(s) - n + 1, Len(s))

\* Stable insertion of x into s, which is sorted by ascending key: x goes
\* after every element whose key is not greater (Array.prototype.sort is
\* stable).  key is a function from elements to integers.
RECURSIVE InsertSorted(_, _, _)
InsertSorted(s, x, key) ==
    IF s = <<>> THEN <<x>>
    ELSE IF key[x] < key[s[Len(s)]]
         THEN Append(InsertSorted(SubSeq(s, 1, Len(s) - 1), x, key), s[Len(s)])
         ELSE Append(s, x)

\* Array.prototype.sort((a, b) => key[a] - key[b]), stable
RECURSIVE StableSort(_, _)
StableSort(s, key) ==
    IF s = <<>> THEN <<>>
    ELSE InsertSorted(StableSort(SubSeq(s, 1, Len(s) - 1), key), s[Len(s)], key)

-----------------------------------------------------------------------------
(* Card data: what the card API returns.  type_line is kept as the set of  *)
(* the type words it contains, so that type_line.includes(w) is w \in it.  *)

COLORS == <<"W", "U", "B", "R", "G">>

Land(n) == [name |-> n, rarity |-> "special", type_line |-> {"Basic Land", "Land"},
            colors |-> <<>>, cmc |-> 0, power |-> 0, toughness |-> 0]

Spell(n, r, t, c, m) == [name |-> n, rarity |-> r, type_line |-> {t},
                         colors |-> c, cmc |-> m, power |-> 0, toughness |-> 0]

Creature(n, r, c, m, p, t) == [name |-> n, rarity |-> r, type_line |-> {"Creature"},
                               colors |-> c, cmc |-> m, power |-> p, toughness |-> t]

\* a card list that gives packs of 3 (one rare slot, one uncommon, one land)
TrioCards == << Creature("Djinn", "rare", <<"U">>, 4, 3, 3),
               Spell("Wrath", "rare", "Sorcery", <<"W">>, 4),
               Creature("Sheoldred", "mythic", <<"B">>, 4, 4, 5),
               Creature("Bear", "uncommon", <<"G">>, 2, 2, 2),
               Land("Plains"), Land("Island") >>

\* a card list that gives packs of 2 (one rare slot, one land)
DuoCards == << Creature("Dragon", "rare", <<"R">>, 6, 5, 5),
               Spell("Ring", "rare", "Artifact", <<>>, 1),
               Land("Swamp"), Land("Forest") >>

\* a card list that gives packs of 7 (one rare slot, 3 uncommons, 2 commons,
\* one land)
SeptCards == << Creature("Balrog", "rare", <<"B", "R">>, 7, 7, 5),
                Spell("Palantir", "rare", "Artifact", <<>>, 3),
                Creature("Ranger", "uncommon", <<"G">>, 3, 3, 2),
                Spell("Bolt", "uncommon", "Instant", <<"R">>, 1),
                Spell("Ward", "uncommon", "Enchantment", <<"W">>, 2),
                Creature("Hobbit", "common", <<"W">>, 1, 1, 1),
                Creature("Orc", "common", <<"B">>, 2, 2, 1),
                Land("Mountain") >>

\* the card list the pack generator is run on: 2 rares, 1 mythic, 4 uncommons,
\* 11 non-land commons and 2 basic lands of rarity common
GenCards == << Spell("R1", "rare", "Sorcery", <<"W">>, 3),
               Spell("R2", "rare", "Instant", <<"U">>, 2),
               Spell("M1", "mythic", "Enchantment", <<"B">>, 5),
               Spell("U1", "uncommon", "Instant", <<"R">>, 1),
               Spell("U2", "uncommon", "Instant", <<"G">>, 2),
               Spell("U3", "uncommon", "Artifact", <<>>, 3),
               Spell("U4", "uncommon", "Sorcery", <<"W", "U">>, 4) >>
            \o [i \in 1..11 |-> Creature("C", "common", <<COLORS[(i % 5) + 1]>>, i % 4, 1, 1)]
            \o [i \in 1..2 |-> [Land("Basic") EXCEPT !.rarity = "common"]]

Catalog == TrioCards \o DuoCards \o SeptCards \o GenCards

CardIds == 1..Len(Catalog)

Card(id) == Catalog[id]

TrioPool == [i \in 1..Len(TrioCards) |-> i]
DuoPool == [i \in 1..Len(DuoCards) |-> Len(TrioCards) + i]
SeptPool == [i \in 1..Len(SeptCards) |-> Len(TrioCards) + Len(DuoCards) + i]
GenBase == Len(TrioCards) + Len(DuoCards) + Len(SeptCards)
GenPool == [i \in 1..Len(GenCards) |-> GenBase + i]

Sets == {"dmu", "neo"}

\* what axios.get returns for a set code (all pages concatenated)
PoolOf(s) == scryfall[s]

IsBasicLand(id) == "Basic Land" \in Card(id).type_line

-----------------------------------------------------------------------------
(* Statistics (ratings.csv, color_pairs.csv); an absent key is "undefined" *)

NoStats == [n \in {} |-> 0]

\* ratings.csv of 'dmu' as parsed by Papa.parse (win rates in percent)
DmuStats == [n \in {"Djinn", "Bear"} |->
               IF n = "Djinn" THEN [gihwr |-> 60, ohwr |-> 58, gdwr |-> 0, color |-> <<"U">>]
               ELSE [gihwr |-> 55, ohwr |-> 0, gdwr |-> 54, color |-> <<"G">>]]

\* a ratings.csv with a row that has no 'GP WR': parseFloat('0')
SparseStats == [n \in {"Djinn", "Wrath"} |->
                  IF n = "Djinn" THEN [gihwr |-> 60, ohwr |-> 58, gdwr |-> 0, color |-> <<"U">>]
                  ELSE [gihwr |-> 0, ohwr |-> 57, gdwr |-> 56, color |-> <<"W">>]]

\* color_pairs.csv of 'dmu'
DmuPairStats == [k \in {"Simic (GU)", "Two-color", "All Decks"} |->
                   IF k = "Simic (GU)" THEN 58 ELSE IF k = "Two-color" THEN 54 ELSE 52]

\* the labels color_pairs.csv has for the ten colour pairs
GuildLabels == <<"Azorius (WU)", "Dimir (UB)", "Rakdos (BR)", "Gruul (RG)",
                 "Selesnya (GW)", "Orzhov (WB)", "Golgari (BG)", "Simic (GU)",
                 "Izzet (UR)", "Boros (RW)">>

\* a color_pairs.csv with the ten pairs only, win rates 51 .. 60
GuildOnlyStats ==
    [k \in Range(GuildLabels) |-> 50 + (CHOOSE i \in 1..Len(GuildLabels) : GuildLabels[i] = k)]

\* a color_pairs.csv with the ten pairs, 'Two-color' and 'All Decks'
GuildPairStats ==
    [k \in Range(GuildLabels) \cup {"Two-color", "All Decks"} |->
       IF k = "Two-color" THEN 45 ELSE IF k = "All Decks" THEN 48 ELSE GuildOnlyStats[k]]

Has(f, k) == k \in DOMAIN f

-----------------------------------------------------------------------------
(* getColorPairBonus *)

\* rank of a colour letter in the default Array.prototype.sort order
LetterRank == [c \in {"B", "G", "R", "U", "W"} |->
                 CASE c = "B" -> 1 [] c = "G" -> 2 [] c = "R" -> 3
                   [] c = "U" -> 4 [] c = "W" -> 5]

\* sortedKey: [...colors].sort().join(''), kept as the sorted sequence
sortedKey(colors) == StableSort(colors, LetterRank)

colorLetterToName(c) ==
    CASE c = "W" -> "White" [] c = "U" -> "Blue" [] c = "B" -> "Black"
      [] c = "R" -> "Red" [] c = "G" -> "Green" [] OTHER -> c

\* twoColorMap, with the keys exactly as the source writes them
twoColorMap ==
    [k \in {<<"U","W">>, <<"U","B">>, <<"B","R">>, <<"R","G">>, <<"G","W">>,
            <<"W","B">>, <<"B","G">>, <<"G","U">>, <<"U","R">>, <<"R","W">>} |->
       CASE k = <<"U","W">> -> "Azorius (WU)" [] k = <<"U","B">> -> "Dimir (UB)"
         [] k = <<"B","R">> -> "Rakdos (BR)"  [] k = <<"R","G">> -> "Gruul (RG)"
         [] k = <<"G","W">> -> "Selesnya (GW)" [] k = <<"W","B">> -> "Orzhov (WB)"
         [] k = <<"B","G">> -> "Golgari (BG)" [] k = <<"G","U">> -> "Simic (GU)"
         [] k = <<"U","R">> -> "Izzet (UR)"   [] k = <<"R","W">> -> "Boros (RW)"]

\* fixedThreeColorMap
fixedThreeColorMap ==
    [k \in {<<"R","U","W">>, <<"B","G","U">>, <<"B","R","W">>, <<"G","R","U">>,
            <<"B","G","W">>, <<"G","W","U">>, <<"B","U","W">>, <<"B","U","R">>,
            <<"B","G","R">>, <<"G","R","W">>} |->
       CASE k = <<"R","U","W">> -> "Jeskai (WUR)" [] k = <<"B","G","U">> -> "Sultai (UBG)"
         [] k = <<"B","R","W">> -> "Mardu (BRW)"  [] k = <<"G","R","U">> -> "Temur (RGU)"
         [] k = <<"B","G","W">> -> "Abzan (GWB)"  [] k = <<"G","W","U">> -> "Bant (GWU)"
         [] k = <<"B","U","W">> -> "Esper (WUB)"  [] k = <<"B","U","R">> -> "Grixis (UBR)"
         [] k = <<"B","G","R">> -> "Jund (BRG)"   [] k = <<"G","R","W">> -> "Naya (RGW)"]

\* "undefined" as a key candidate: skipped by `key && ...`
Undefined == "undefined"

\* null passed for a list of colours
Null == <<"null">>

\* the named label and its splash variant; `${undefined} + Splash` is the
\* string "undefined + Splash", which no statistics file has as a key
NamedKeys(map, aiKey) ==
    IF aiKey \in DOMAIN map
    THEN <<map[aiKey], map[aiKey] \o " + Splash">>
    ELSE <<Undefined, "undefined + Splash">>

\* keyCandidates, most specific first
keyCandidates(aiColors) ==
    LET aiKey == sortedKey(aiColors)
        n == Len(aiColors)
    IN  (CASE n = 1 -> <<"Mono-" \o colorLetterToName(aiColors[1]), "Mono-color">>
           [] n = 2 -> NamedKeys(twoColorMap, aiKey) \o <<"Two-color", "Two-color + Splash">>
           [] n = 3 -> NamedKeys(fixedThreeColorMap, aiKey)
                         \o <<"Three-color", "Three-color + Splash">>
           [] n = 4 -> <<"Four-color", "Four-color + Splash">>
           [] n = 5 -> <<"Five-color", "All Colors (WUBRG)">>
           [] OTHER -> <<>>)
        \o <<"All Decks">>

\* the first candidate key that colorPairStats defines, 0 when there is none
RECURSIVE FirstKey(_, _)
FirstKey(keys, stats) ==
    IF keys = <<>> THEN 0
    ELSE IF Head(keys) # Undefined /\ Has(stats, Head(keys)) THEN 1
    ELSE LET r == FirstKey(Tail(keys), stats) IN IF r = 0 THEN 0 ELSE r + 1

\* a bonus that does not ask whether the card fits the seat's colours
getColorPairBonusAnyCard(cardColors, aiColors, pairStats) ==
    IF cardColors = Null \/ Len(cardColors) = 0 \/ aiColors = Null \/ Len(aiColors) = 0
    THEN 0
    ELSE LET keys == keyCandidates(aiColors)
             k == FirstKey(keys, pairStats)
         IN  IF k = 0 THEN 0 ELSE (pairStats[keys[k]] - 50) * 5

\* getColorPairBonus, times 10: (winRate - 50) * 0.5
getColorPairBonus(cardColors, aiColors, pairStats) ==
    IF cardColors = Null \/ Len(cardColors) = 0 \/ aiColors = Null \/ Len(aiColors) = 0
    THEN 0
    ELSE IF ~(\A i \in 1..Len(cardColors) : Includes(aiColors, cardColors[i])) THEN 0
    ELSE LET keys == keyCandidates(aiColors)
             k == FirstKey(keys, pairStats)
         IN  IF k = 0 THEN 0 ELSE (pairStats[keys[k]] - 50) * 5

-----------------------------------------------------------------------------
(* calculateCardScore, times 10 *)

rarityMap(r) ==
    CASE r = "mythic" -> 10 [] r = "rare" -> 8 [] r = "uncommon" -> 5
      [] r = "common" -> 3 [] OTHER -> 1

\* cardStats[card.name] || {}; a missing field reads as 0 (falsy)
StatsFor(stats, name) ==
    IF Has(stats, name) THEN stats[name]
    ELSE [gihwr |-> 0, ohwr |-> 0, gdwr |-> 0, color |-> <<>>]

\* the statistics branch: gihwr * 1.5 + ohwr * 0.8 + gdwr * 0.7
StatsBranch(st) ==
    15 * st.gihwr + (IF st.ohwr # 0 THEN 8 * st.ohwr ELSE 0)
                  + (IF st.gdwr # 0 THEN 7 * st.gdwr ELSE 0)

\* the fallback branch: rarity + max(10 - cmc, 0) + type score
FallbackBranch(c) ==
    LET typeScore ==
          IF "Creature" \in c.type_line THEN 5 * (c.power + c.toughness) + 20
          ELSE IF "Instant" \in c.type_line \/ "Sorcery" \in c.type_line THEN 40
          ELSE IF "Artifact" \in c.type_line \/ "Enchantment" \in c.type_line THEN 30
          ELSE 0
    IN  10 * rarityMap(c.rarity) + 10 * Max(10 - c.cmc, 0) + typeScore

\* cardColorInfo = statsColor.split('') || cardColors: split returns an
\* array, and every array is truthy, so card.colors is never used
cardColorInfo(st, c) == st.color

\* colorScore: +3 colourless, else +5 per colour of the seat, +3 if all match
colorScore(info, aiColors) ==
    IF Len(info) = 0 THEN 3
    ELSE 5 * Cardinality({i \in 1..Len(info) : Includes(aiColors, info[i])})
         + (IF \A i \in 1..Len(info) : Includes(aiColors, info[i]) THEN 3 ELSE 0)

calculateCardScore(id, aiColors, stats, pairStats) ==
    LET c == Card(id)
        st == StatsFor(stats, c.name)
        info == cardColorInfo(st, c)
        cs == colorScore(info, aiColors)
        bonus == getColorPairBonus(info, aiColors, pairStats)
    IN  IF st.gihwr # 0
        THEN StatsBranch(st) + 15 * cs + bonus
        ELSE FallbackBranch(c) + 10 * cs + bonus

-----------------------------------------------------------------------------
(* updatePlayerColors, aiPickCard *)

\* colorCounts[color]: occurrences of the colour on the drafted cards
colorCount(drafted, color) ==
    LET occ(i) == Cardinality({j \in 1..Len(Card(drafted[i]).colors) :
                                 Card(drafted[i]).colors[j] = color})
        F[i \in 0..Len(drafted)] == IF i = 0 THEN 0 ELSE F[i - 1] + occ(i)
    IN  F[Len(drafted)]

\* an update whose sort compares countA - countB
updatePlayerColorsAscending(player) ==
    LET key == [c \in Range(COLORS) |-> colorCount(player.draftedCards, c)]
        sortedColors == SubSeq(StableSort(COLORS, key), 1, 2)
    IN  [player EXCEPT !.colors = IF Len(sortedColors) > 0 THEN sortedColors ELSE @]

\* Object.entries(colorCounts).sort(countB - countA).map(color).slice(0, 2):
\* the five colours by descending count, stable in the order W,U,B,R,G; the
\* list always has two entries, so the `: player.colors` fallback is dead
updatePlayerColors(player) ==
    LET key == [c \in Range(COLORS) |-> 0 - colorCount(player.draftedCards, c)]
        sortedColors == SubSeq(StableSort(COLORS, key), 1, 2)
    IN  [player EXCEPT !.colors = IF Len(sortedColors) > 0 THEN sortedColors ELSE @]

\* a pick whose sort puts the later of two equal scores first
aiPickCardUnstable(pk, aiColors, stats, pairStats) ==
    IF Len(pk) = 0 THEN 0
    ELSE LET key == [id \in Range(pk) |->
                       0 - calculateCardScore(id, aiColors, stats, pairStats)]
         IN  StableSort([i \in 1..Len(pk) |-> pk[Len(pk) + 1 - i]], key)[1]

\* aiPickCard: the first card of [...pack].sort(bScore - aScore), a stable
\* sort; 0 stands for null
aiPickCard(pk, aiColors, stats, pairStats) ==
    IF Len(pk) = 0 THEN 0
    ELSE LET key == [id \in Range(pk) |->
                       0 - calculateCardScore(id, aiColors, stats, pairStats)]
         IN  StableSort(pk, key)[1]

-----------------------------------------------------------------------------
(* generatePack.  The random draws of one attempt are an explicit record:  *)
(*   mythic : Math.random() < 0.125                                        *)
(*   rare, land : the numbers behind Math.floor(Math.random() * length)    *)
(*   unc, com : the positions that the shuffles bring to the front         *)
(* and rnd is the stream of draws, one per attempt.                        *)

ByRarity(cs, r) == SelectSeq(cs, LAMBDA id : Card(id).rarity = r)

BasicLands(cs) == SelectSeq(cs, IsBasicLand)

landCount(pk) == Len(BasicLands(pk))

\* list[Math.floor(Math.random() * list.length)]; 0 stands for undefined
RandomOf(list, r) == IF Len(list) = 0 THEN 0 ELSE list[(r % Len(list)) + 1]

\* [...list].sort(() => Math.random() - 0.5).slice(0, k), the shuffle
\* bringing the positions idx to the front
ShuffledSlice(list, idx) == [i \in 1..Len(idx) |-> list[idx[i]]]

\* rarityOrder[aRarity], a basic land counting as 'land'
rarityOrder(id) ==
    IF IsBasicLand(id) THEN 5
    ELSE CASE Card(id).rarity = "mythic" -> 1 [] Card(id).rarity = "rare" -> 2
           [] Card(id).rarity = "uncommon" -> 3 [] Card(id).rarity = "common" -> 4

\* one attempt: [rareCard, ...uncommonCards, ...commonCards, landCard].filter(Boolean)
PackAttempt(cs, d) ==
    LET commons == ByRarity(cs, "common")
        uncommons == ByRarity(cs, "uncommon")
        rares == ByRarity(cs, "rare")
        mythics == ByRarity(cs, "mythic")
        lands == BasicLands(cs)
        rareOrMythic == IF Len(mythics) # 0 /\ d.mythic THEN mythics ELSE rares
        rareCard == IF Len(rareOrMythic) # 0 THEN RandomOf(rareOrMythic, d.rare)
                    ELSE RandomOf(commons, d.rare)
        uncommonCards == ShuffledSlice(uncommons, d.unc)
        commonCards == ShuffledSlice(commons, d.com)
        landCard == IF Len(lands) # 0 THEN RandomOf(lands, d.land)
                    ELSE RandomOf(commons, d.land)
    IN  SelectSeq(<<rareCard>> \o uncommonCards \o commonCards \o <<landCard>>,
                  LAMBDA id : id # 0)

\* what generatePack evaluates to when the attempts never succeed: the
\* recursion has no bound, it ends in a RangeError (stack overflow)
RangeError == <<-1>>

\* a generator that returns its first attempt whatever its lands
generatePackOnce(cs, rnd) ==
    IF rnd = <<>> THEN RangeError
    ELSE LET pk == PackAttempt(cs, Head(rnd))
         IN  StableSort(pk, [id \in Range(pk) |-> rarityOrder(id)])

\* generatePack: regenerate while the attempt has not exactly one basic land,
\* then sort by rarity
RECURSIVE generatePack(_, _)
generatePack(cs, rnd) ==
    IF rnd = <<>> THEN RangeError
    ELSE LET pk == PackAttempt(cs, Head(rnd))
         IN  IF landCount(pk) # 1 THEN generatePack(cs, Tail(rnd))
             ELSE StableSort(pk, [id \in Range(pk) |-> rarityOrder(id)])

-----------------------------------------------------------------------------
(* initializeAIOpponents, initializeDraft.  seed selects one outcome of    *)
(* the random draws: those of seat p's pack for round r, and the colour of *)
(* each opponent.                                                          *)

\* the front of the shuffle that rotates n elements by r
Rotation(n, k, r) == [i \in 1..Min(n, k) |-> ((i - 1 + r) % n) + 1]

DrawOf(cs, seed, p, r) ==
    [mythic |-> (seed + p + 3 * r) % 8 = 0,
     rare   |-> seed + p + r,
     unc    |-> Rotation(Len(ByRarity(cs, "uncommon")), UncommonSlots, seed + p),
     com    |-> Rotation(Len(ByRarity(cs, "common")), CommonSlots, seed + r),
     land   |-> seed * p + (p \div 3) + r]

initializeAIOpponents(numOpponents, seed) ==
    [i \in 1..numOpponents |->
        [id |-> i, colors |-> <<COLORS[((seed * i + i \div 2) % 5) + 1]>>,
         draftedCards |-> <<>>, sideboard |-> <<>>, packs |-> <<>>]]

\* the seats: the human (id 0) first, then AI_1 .. AI_7, each with 3 packs
initializeDraft(cs, seed) ==
    LET humanPlayer == [id |-> 0, colors |-> <<>>, draftedCards |-> <<>>,
                        sideboard |-> <<>>, packs |-> <<>>]
        allPlayers == <<humanPlayer>> \o initializeAIOpponents(NumOpponents, seed)
    IN  [p \in 1..Len(allPlayers) |->
           [allPlayers[p] EXCEPT !.packs =
               [r \in 1..NumRounds |-> generatePack(cs, <<DrawOf(cs, seed, p, r)>>)]]]

-----------------------------------------------------------------------------
(* passPacks *)

\* a pass that does not wrap around the table
nextIndexNoWrap(index, round, n) ==
    IF round % 2 = 1 THEN Min(index + 1, n - 1) ELSE Max(index - 1, 0)

\* the seat whose pack seat `index` (0-based) takes over
nextIndex(index, round, n) ==
    IF round % 2 = 1 THEN (index + 1) % n ELSE (index - 1 + n) % n

\* the correction of a received pack with more than one basic land: every
\* card that is one of the lands after the first is filtered out
trimLands(pk) ==
    IF landCount(pk) > 1
    THEN LET extraLands == Tail(BasicLands(pk))
         IN  SelectSeq(pk, LAMBDA id : ~Includes(extraLands, id))
    ELSE pk

passPacks(ps, round) ==
    LET currentPacks == [p \in 1..Len(ps) |-> ps[p].packs[round]]
    IN  [p \in 1..Len(ps) |->
           [ps[p] EXCEPT !.packs[round] =
               trimLands(currentPacks[nextIndex(p - 1, round, Len(ps)) + 1])]]

-----------------------------------------------------------------------------
(* handlePick *)

\* JSON.parse(JSON.stringify(players)): the seats rebuilt field by field
JsonClone(ps) ==
    [p \in 1..Len(ps) |->
        [id |-> ps[p].id,
         colors |-> [i \in 1..Len(ps[p].colors) |-> ps[p].colors[i]],
         draftedCards |-> [i \in 1..Len(ps[p].draftedCards) |-> ps[p].draftedCards[i]],
         sideboard |-> [i \in 1..Len(ps[p].sideboard) |-> ps[p].sideboard[i]],
         packs |-> [r \in 1..Len(ps[p].packs) |->
                      [i \in 1..Len(ps[p].packs[r]) |-> ps[p].packs[r][i]]]]]

\* pack.filter((c) => c.id !== card.id)
WithoutId(pk, id) == SelectSeq(pk, LAMBDA c : c # id)

\* a human pick that leaves the card in the pack
humanPickKeep(player, round, card) ==
    updatePlayerColors([player EXCEPT !.draftedCards = Append(@, card)])

\* the human's part: the card joins draftedCards and leaves the pack
humanPick(player, round, card) ==
    updatePlayerColors(
        [player EXCEPT !.draftedCards = Append(@, card),
                       !.packs[round] = WithoutId(@, card)])

\* an opponent that drafts its card and leaves it in the pack
aiPickKeep(player, round, stats, pairStats) ==
    LET aiPack == player.packs[round]
        aiCard == aiPickCard(aiPack, player.colors, stats, pairStats)
    IN  IF Len(aiPack) > 0 /\ aiCard # 0
        THEN updatePlayerColors([player EXCEPT !.draftedCards = Append(@, aiCard)])
        ELSE player

\* one opponent's part: nothing when its pack is empty
aiPick(player, round, stats, pairStats) ==
    LET aiPack == player.packs[round]
        aiCard == aiPickCard(aiPack, player.colors, stats, pairStats)
    IN  IF Len(aiPack) > 0 /\ aiCard # 0
        THEN updatePlayerColors(
                 [player EXCEPT !.draftedCards = Append(@, aiCard),
                                !.packs[round] = WithoutId(aiPack, aiCard)])
        ELSE player

\* updatedPlayers of handlePick: the human's pick, every opponent's pick, the pass
pickPlayers(ps, round, card, stats, pairStats) ==
    passPacks([p \in 1..Len(ps) |->
                  IF p = 1 THEN humanPick(ps[p], round, card)
                  ELSE aiPick(ps[p], round, stats, pairStats)],
              round)

\* an emptiness test that reads packs[round - 2], the round before
allPacksEmptyBefore(ps, round) ==
    \A p \in 1..Len(ps) : Len(ps[p].packs[Max(round - 1, 1)]) = 0

\* updatedPlayers.every((player) => player.packs[currentRound - 1].length === 0)
allPacksEmpty(ps, round) == \A p \in 1..Len(ps) : Len(ps[p].packs[round]) = 0

\* a snapshot that saves the pick index after its increment
SnapshotLate(ps, idx) == [players |-> JsonClone(ps), packIndex |-> idx + 1]

\* the snapshot handlePick saves
Snapshot(ps, idx) == [players |-> JsonClone(ps), packIndex |-> idx]

\* a history that keeps its oldest entries: [...prev, currentState].slice(0, 5)
pushHistoryOldest(prev, snap) ==
    SubSeq(Append(prev, snap), 1, Min(Len(prev) + 1, HistoryCap))

\* [...prev, currentState].slice(-5)
pushHistory(prev, snap) == LastN(Append(prev, snap), HistoryCap)

\* handlePick(card): the values its setters leave in the state.  The second
\* setDraftHistory call of a round-ending pick overrides the first.
handlePick(ps, round, idx, hist, card, stats, pairStats) ==
    LET currentState == Snapshot(ps, idx)
        updatedPlayers == pickPlayers(ps, round, card, stats, pairStats)
    IN  IF allPacksEmpty(updatedPlayers, round)
        THEN IF round < NumRounds
             THEN [players |-> updatedPlayers, currentRound |-> round + 1,
                   currentPackIndex |-> 0, draftHistory |-> <<>>,
                   draftComplete |-> FALSE]
             ELSE [players |-> updatedPlayers, currentRound |-> round,
                   currentPackIndex |-> idx, draftHistory |-> <<>>,
                   draftComplete |-> TRUE]
        ELSE [players |-> updatedPlayers, currentRound |-> round,
              currentPackIndex |-> idx + 1,
              draftHistory |-> pushHistory(hist, currentState),
              draftComplete |-> FALSE]

\* an undo that restores and drops the oldest snapshot
undoPickOldest(hist) ==
    LET lastState == hist[1]
    IN  [players |-> lastState.players, currentPackIndex |-> lastState.packIndex,
         draftHistory |-> Tail(hist)]

\* onClick of Undo Pick, for a non-empty history
undoPick(hist) ==
    LET lastState == hist[Len(hist)]
    IN  [players |-> lastState.players, currentPackIndex |-> lastState.packIndex,
         draftHistory |-> SubSeq(hist, 1, Len(hist) - 1)]

\* a Suggest Pick that suggests the last card of the pack
suggestPickLast(ps, round, hint, stats, pairStats) ==
    LET humanPlayer == ps[1]
        currentPack == humanPlayer.packs[round]
        suggested == currentPack[Len(currentPack)]
    IN  IF Len(currentPack) > 0
        THEN IF hint = suggested THEN 0 ELSE suggested
        ELSE hint

\* onClick of Suggest Pick: the hint it leaves, 0 standing for null
suggestPick(ps, round, hint, stats, pairStats) ==
    LET humanPlayer == ps[1]
        currentPack == humanPlayer.packs[round]
        suggested == aiPickCard(currentPack, humanPlayer.colors, stats, pairStats)
    IN  IF Len(currentPack) > 0
        THEN IF hint = suggested THEN 0 ELSE suggested
        ELSE hint

-----------------------------------------------------------------------------
(* Sideboard and drafted-deck sorting (the human seat only) *)

moveToSideboard(ps, card) ==
    [ps EXCEPT ![1].draftedCards = WithoutId(@, card),
               ![1].sideboard = Append(@, card)]

moveFromSideboard(ps, card) ==
    [ps EXCEPT ![1].sideboard = WithoutId(@, card),
               ![1].draftedCards = Append(@, card)]

\* (a.cmc || 0) - (b.cmc || 0)
cmcKey == [id \in CardIds |-> Card(id).cmc]

\* (a.colors?.[0] || '').localeCompare(b.colors?.[0] || ''): '' sorts first
colorKey == [id \in CardIds |->
               IF Len(Card(id).colors) = 0 THEN 0 ELSE LetterRank[Card(id).colors[1]]]

sortDraftDeck(ps, criteria) ==
    [ps EXCEPT ![1].draftedCards =
        IF criteria = "cmc" THEN StableSort(@, cmcKey) ELSE StableSort(@, colorKey)]

-----------------------------------------------------------------------------
(* Deck building: builtDeck holds card identifiers; the lands suggestLands  *)
(* makes up get the identifiers after those of the catalog                 *)

\* the position of a colour in ['W', 'U', 'B', 'R', 'G']
ColourIndex(color) == CHOOSE k \in 1..Len(COLORS) : COLORS[k] = color

\* the id `basic-${color}-${i}`
basic(color, i) == Len(Catalog) + (ColourIndex(color) - 1) * TotalLandsNeeded + i + 1

SuggestedIds == (Len(Catalog) + 1)..(Len(Catalog) + Len(COLORS) * TotalLandsNeeded)

DeckIds == CardIds \cup SuggestedIds

\* the colour in the id of a suggested land
basicColor(id) == COLORS[((id - Len(Catalog) - 1) \div TotalLandsNeeded) + 1]

\* color === 'W' ? 'Plains' : ... : 'Forest'
basicName(color) ==
    CASE color = "W" -> "Plains" [] color = "U" -> "Island" [] color = "B" -> "Swamp"
      [] color = "R" -> "Mountain" [] OTHER -> "Forest"

\* a card of builtDeck: a card of the catalog, or the object suggestLands
\* pushes, which has no cmc
DeckCard(id) ==
    IF id \in CardIds THEN Card(id)
    ELSE [name |-> basicName(basicColor(id)), type_line |-> {"Basic Land", "Land"},
          colors |-> <<basicColor(id)>>, cmc |-> 0]

\* colorCounts[color] after the forEach over builtDeck
colorCounts(deck) ==
    [color \in Range(COLORS) |->
        Cardinality({<<i, j>> \in (1..Len(deck)) \X (1..Len(COLORS)) :
                        /\ j <= Len(DeckCard(deck[i]).colors)
                        /\ DeckCard(deck[i]).colors[j] = color})]

RECURSIVE Sum(_, _)
\* Object.values(f).reduce((sum, count) => sum + count, 0) over the keys in S
Sum(f, S) == IF S = {} THEN 0
             ELSE LET x == CHOOSE y \in S : TRUE IN f[x] + Sum(f, S \ {x})

\* Math.round((n / d) * totalLandsNeeded) for integers n >= 0, d > 0: halves
\* round up.  The product is a half only for n / d = 1/2 or d a multiple of
\* 34, so the floating-point result is the exact one for decks of this size.
roundShare(n, d) == (2 * TotalLandsNeeded * n + d) \div (2 * d)

\* a suggestLands that rounds the share down
landsOfColorFloor(counts, color) ==
    LET sum == Sum(counts, Range(COLORS))
        totalColors == IF sum = 0 THEN 1 ELSE sum
    IN  (TotalLandsNeeded * counts[color]) \div totalColors

\* count, for one colour of the forEach in suggestLands
landsOfColor(counts, color) ==
    LET sum == Sum(counts, Range(COLORS))
        totalColors == IF sum = 0 THEN 1 ELSE sum
    IN  roundShare(counts[color], totalColors)

RECURSIVE landsFrom(_, _)
\* suggestedLands: for the colours from position k on, count lands each
landsFrom(counts, k) ==
    IF k > Len(COLORS) THEN <<>>
    ELSE [i \in 1..landsOfColor(counts, COLORS[k]) |-> basic(COLORS[k], i - 1)]
         \o landsFrom(counts, k + 1)

\* suggestLands(): the builtDeck it sets
suggestLands(deck) == deck \o landsFrom(colorCounts(deck), 1)

\* addToDeck(card): the builtDeck it leaves
addToDeck(deck, card) == IF ~Includes(deck, card) THEN Append(deck, card) ELSE deck

\* removeFromDeck(card)
removeFromDeck(deck, card) == WithoutId(deck, card)

\* (a.cmc || 0) - (b.cmc || 0) on the cards of builtDeck
deckCmcKey == [id \in DeckIds |-> DeckCard(id).cmc]

\* (a.colors?.[0] || '').localeCompare(b.colors?.[0] || '')
deckColorKey == [id \in DeckIds |->
                   IF Len(DeckCard(id).colors) = 0 THEN 0
                   ELSE LetterRank[DeckCard(id).colors[1]]]

\* a sortDeck that puts the highest key first
sortDeckDescending(deck, criteria) ==
    LET key == IF criteria = "cmc" THEN deckCmcKey ELSE deckColorKey
    IN  StableSort(deck, [id \in DeckIds |-> 0 - key[id]])

\* sortDeck(criteria): [...builtDeck].sort(...)
sortDeck(deck, criteria) ==
    IF criteria = "cmc" THEN StableSort(deck, deckCmcKey)
    ELSE IF criteria = "color" THEN StableSort(deck, deckColorKey)
    ELSE deck

-----------------------------------------------------------------------------
(* The application: state after mounting, and one action per handler *)

\* the human's pack of the current round, <<>> when there is none
humanPack == IF players = <<>> THEN <<>> ELSE players[1].packs[currentRound]

\* the draft view is rendered: not loading, draft not complete
DraftView == ~loadingCards /\ ~draftComplete

\* the pack, Suggest Pick and Undo Pick are rendered
PackView == DraftView /\ Len(humanPack) > 0

NoFetch == [s \in Sets |-> 0]

\* no function has been called on its own
NoCall == [fn |-> "none"]

\* mount: the effects on selectedSet have run, fetchCards awaits axios;
\* api is what the card API serves
Mount(api) ==
    /\ cards = <<>>
    /\ players = <<>>
    /\ currentRound = 1
    /\ currentPackIndex = 0
    /\ draftComplete = FALSE
    /\ selectedSet = "dmu"
    /\ loadingCards = TRUE
    /\ draftHistory = <<>>
    /\ suggestedCardId = 0
    /\ cardStats = NoStats
    /\ colorPairStats = NoStats
    /\ scryfall = api
    /\ fetches = [NoFetch EXCEPT !["dmu"] = 1]
    /\ changes = 0
    /\ moves = 0
    /\ result = NoCall
    /\ builtDeck = <<>>

\* the pack generator is not run on its own
NoGenerator == pool = <<>> /\ pack = <<>>

Init == Mount([s \in Sets |-> IF s = "dmu" THEN TrioPool ELSE DuoPool]) /\ NoGenerator

\* a set change that also clears the built deck and the hint
ChangeSetClearsDeck(s) ==
    /\ s # selectedSet
    /\ changes < MaxChanges
    /\ selectedSet' = s
    /\ loadingCards' = TRUE
    /\ cards' = <<>>
    /\ players' = <<>>
    /\ draftHistory' = <<>>
    /\ currentRound' = 1
    /\ currentPackIndex' = 0
    /\ draftComplete' = FALSE
    /\ fetches' = [fetches EXCEPT ![s] = @ + 1]
    /\ changes' = changes + 1
    /\ builtDeck' = <<>>
    /\ suggestedCardId' = 0
    /\ UNCHANGED <<cardStats, colorPairStats, scryfall, moves, pool, pack, result>>

\* onChange of the set selector: both effects on selectedSet run
ChangeSet(s) ==
    /\ s # selectedSet
    /\ changes < MaxChanges
    /\ selectedSet' = s
    /\ loadingCards' = TRUE
    /\ cards' = <<>>
    /\ players' = <<>>
    /\ draftHistory' = <<>>
    /\ currentRound' = 1
    /\ currentPackIndex' = 0
    /\ draftComplete' = FALSE
    /\ fetches' = [fetches EXCEPT ![s] = @ + 1]
    /\ changes' = changes + 1
    /\ UNCHANGED <<suggestedCardId, cardStats, colorPairStats, scryfall, moves,
                   pool, pack, result, builtDeck>>

\* a fetchCards call gets its pages: setCards, initializeDraft, then finally
FetchDone(s, seed) ==
    /\ fetches[s] > 0
    /\ fetches' = [fetches EXCEPT ![s] = @ - 1]
    /\ IF Len(PoolOf(s)) = 0
       THEN UNCHANGED <<cards, players>>
       ELSE /\ cards' = PoolOf(s)
            /\ players' = initializeDraft(PoolOf(s), seed)
    /\ loadingCards' = FALSE
    /\ UNCHANGED <<currentRound, currentPackIndex, draftComplete, selectedSet,
                   draftHistory, suggestedCardId, cardStats, colorPairStats,
                   scryfall, changes, moves, pool, pack, result, builtDeck>>

\* a fetchCards call fails: catch logs, then finally
FetchFail(s) ==
    /\ fetches[s] > 0
    /\ fetches' = [fetches EXCEPT ![s] = @ - 1]
    /\ loadingCards' = FALSE
    /\ UNCHANGED <<cards, players, currentRound, currentPackIndex, draftComplete,
                   selectedSet, draftHistory, suggestedCardId, cardStats,
                   colorPairStats, scryfall, changes, moves, pool, pack, result, builtDeck>>

\* a pick that leaves the suggestion as it is
PickKeepHint(card) ==
    /\ PackView
    /\ Includes(humanPack, card)
    /\ \E next \in {handlePick(players, currentRound, currentPackIndex,
                              draftHistory, card, cardStats, colorPairStats)} :
           /\ players' = next.players
           /\ currentRound' = next.currentRound
           /\ currentPackIndex' = next.currentPackIndex
           /\ draftHistory' = next.draftHistory
           /\ draftComplete' = next.draftComplete
    /\ UNCHANGED <<cards, selectedSet, loadingCards, suggestedCardId, cardStats,
                   colorPairStats, scryfall, fetches, changes, moves, pool, pack,
                   result, builtDeck>>

\* onPick of a card the Pack component shows: handlePick(card)
Pick(card) ==
    /\ PackView
    /\ Includes(humanPack, card)
    /\ \E next \in {handlePick(players, currentRound, currentPackIndex,
                              draftHistory, card, cardStats, colorPairStats)} :
           /\ players' = next.players
           /\ currentRound' = next.currentRound
           /\ currentPackIndex' = next.currentPackIndex
           /\ draftHistory' = next.draftHistory
           /\ draftComplete' = next.draftComplete
    /\ suggestedCardId' = 0
    /\ UNCHANGED <<cards, selectedSet, loadingCards, cardStats, colorPairStats,
                   scryfall, fetches, changes, moves, pool, pack, result, builtDeck>>

\* an Undo Pick that keeps the sideboard of the moment
UndoKeepSideboard ==
    /\ PackView
    /\ Len(draftHistory) > 0
    /\ \E next \in {undoPick(draftHistory)} :
           /\ players' = [next.players EXCEPT ![1].sideboard = players[1].sideboard]
           /\ currentPackIndex' = next.currentPackIndex
           /\ draftHistory' = next.draftHistory
    /\ UNCHANGED <<cards, currentRound, draftComplete, selectedSet, loadingCards,
                   suggestedCardId, cardStats, colorPairStats, scryfall, fetches,
                   changes, moves, pool, pack, result, builtDeck>>

\* onClick of Undo Pick
Undo ==
    /\ PackView
    /\ Len(draftHistory) > 0
    /\ \E next \in {undoPick(draftHistory)} :
           /\ players' = next.players
           /\ currentPackIndex' = next.currentPackIndex
           /\ draftHistory' = next.draftHistory
    /\ UNCHANGED <<cards, currentRound, draftComplete, selectedSet, loadingCards,
                   suggestedCardId, cardStats, colorPairStats, scryfall, fetches,
                   changes, moves, pool, pack, result, builtDeck>>

\* onClick of Suggest Pick
SuggestPick ==
    /\ PackView
    /\ suggestedCardId' = suggestPick(players, currentRound, suggestedCardId,
                                      cardStats, colorPairStats)
    /\ UNCHANGED <<cards, players, currentRound, currentPackIndex, draftComplete,
                   selectedSet, loadingCards, draftHistory, cardStats,
                   colorPairStats, scryfall, fetches, changes, moves, pool, pack,
                   result, builtDeck>>

\* onRemoveFromDeck of a card of the Deck component
MoveToSideboard(card) ==
    /\ DraftView /\ players # <<>>
    /\ moves < MaxMoves
    /\ Includes(players[1].draftedCards, card)
    /\ players' = moveToSideboard(players, card)
    /\ moves' = moves + 1
    /\ UNCHANGED <<cards, currentRound, currentPackIndex, draftComplete, selectedSet,
                   loadingCards, draftHistory, suggestedCardId, cardStats,
                   colorPairStats, scryfall, fetches, changes, pool, pack, result, builtDeck>>

\* onMoveFromSideboard of a card of the Sideboard component
MoveFromSideboard(card) ==
    /\ DraftView /\ players # <<>>
    /\ moves < MaxMoves
    /\ Includes(players[1].sideboard, card)
    /\ players' = moveFromSideboard(players, card)
    /\ moves' = moves + 1
    /\ UNCHANGED <<cards, currentRound, currentPackIndex, draftComplete, selectedSet,
                   loadingCards, draftHistory, suggestedCardId, cardStats,
                   colorPairStats, scryfall, fetches, changes, pool, pack, result, builtDeck>>

\* onClick of Sort Deck in the draft view
SortDraftDeck(criteria) ==
    /\ DraftView /\ players # <<>>
    /\ moves < MaxMoves
    /\ players' = sortDraftDeck(players, criteria)
    /\ moves' = moves + 1
    /\ UNCHANGED <<cards, currentRound, currentPackIndex, draftComplete, selectedSet,
                   loadingCards, draftHistory, suggestedCardId, cardStats,
                   colorPairStats, scryfall, fetches, changes, pool, pack, result, builtDeck>>

\* Loading sets and drafting: set changes, card loads, picks and undo
Next ==
    \/ \E s \in Sets : ChangeSet(s)
    \/ \E s \in Sets, seed \in 1..NumSeeds : FetchDone(s, seed)
    \/ \E s \in Sets : FetchFail(s)
    \/ \E card \in CardIds : Pick(card)
    \/ Undo

Spec == Init /\ [][Next]_vars

-----------------------------------------------------------------------------
(* Drafting with the drafted deck being edited: one set, packs of 2 *)

InitDeck ==
    Mount([s \in Sets |-> IF s = "dmu" THEN DuoPool ELSE TrioPool]) /\ NoGenerator

NextDeck ==
    \/ \E s \in Sets, seed \in 1..NumSeeds : FetchDone(s, seed)
    \/ \E card \in CardIds : Pick(card)
    \/ Undo
    \/ \E card \in CardIds : MoveToSideboard(card)
    \/ \E card \in CardIds : MoveFromSideboard(card)
    \/ \E criteria \in {"cmc", "color"} : SortDraftDeck(criteria)

SpecDeck == InitDeck /\ [][NextDeck]_vars

-----------------------------------------------------------------------------
(* Drafting with Suggest Pick: packs of 2, then packs of 3 after a set     *)
(* change                                                                  *)

NextHint ==
    \/ \E s \in Sets : ChangeSet(s)
    \/ \E s \in Sets, seed \in 1..NumSeeds : FetchDone(s, seed)
    \/ \E card \in CardIds : Pick(card)
    \/ Undo
    \/ SuggestPick

SpecHint == InitDeck /\ [][NextHint]_vars

-----------------------------------------------------------------------------
(* Loading a set the card API has no cards for: the search for 'neo'       *)
(* returns no card or fails                                                *)

InitEmpty ==
    Mount([s \in Sets |-> IF s = "dmu" THEN DuoPool ELSE <<>>]) /\ NoGenerator

SpecEmpty == InitEmpty /\ [][Next]_vars

-----------------------------------------------------------------------------
(* The handlers called when the view offers no such command: handleUndo    *)
(* with an empty history, handlePick while the human has no card in the    *)
(* pack of the round.  One such call is made, result records it.           *)

\* handleUndo() with an empty history: logs and returns
HandleUndo ==
    /\ result = NoCall
    /\ Len(draftHistory) = 0
    /\ result' = [fn |-> "handleUndo", threw |-> FALSE]
    /\ UNCHANGED <<cards, players, currentRound, currentPackIndex, draftComplete,
                   selectedSet, loadingCards, draftHistory, suggestedCardId,
                   cardStats, colorPairStats, scryfall, fetches, changes, moves,
                   pool, pack, builtDeck>>

\* handlePick(card), card a card of the selected set, with no card in the
\* human's pack of the round.  Without
\* seats, updatedPlayers[0] is undefined and reading its packs throws, after
\* the snapshot was queued for the history.
HandlePick(card) ==
    /\ result = NoCall
    /\ Includes(PoolOf(selectedSet), card)
    /\ Len(humanPack) = 0
    /\ IF players = <<>>
       THEN /\ draftHistory' = pushHistory(draftHistory,
                                            Snapshot(players, currentPackIndex))
            /\ result' = [fn |-> "handlePick", threw |-> TRUE]
            /\ UNCHANGED <<players, currentRound, currentPackIndex, draftComplete,
                           suggestedCardId>>
       ELSE /\ \E next \in {handlePick(players, currentRound, currentPackIndex,
                                       draftHistory, card, cardStats,
                                       colorPairStats)} :
                   /\ players' = next.players
                   /\ currentRound' = next.currentRound
                   /\ currentPackIndex' = next.currentPackIndex
                   /\ draftHistory' = next.draftHistory
                   /\ draftComplete' = next.draftComplete
            /\ suggestedCardId' = 0
            /\ result' = [fn |-> "handlePick", threw |-> FALSE]
    /\ UNCHANGED <<cards, selectedSet, loadingCards, cardStats, colorPairStats,
                   scryfall, fetches, changes, moves, pool, pack, builtDeck>>

NextCommand ==
    \/ \E s \in Sets, seed \in 1..NumSeeds : FetchDone(s, seed)
    \/ \E card \in CardIds : Pick(card)
    \/ Undo
    \/ HandleUndo
    \/ \E card \in CardIds : HandlePick(card)

SpecCommand == InitDeck /\ [][NextCommand]_vars

-----------------------------------------------------------------------------
(* Drafting from packs of 7, so that the undo history fills up; the run is *)
(* cut off after MaxDepth picks                                            *)

InitLong ==
    Mount([s \in Sets |-> IF s = "dmu" THEN SeptPool ELSE DuoPool]) /\ NoGenerator

LongPick(card) ==
    /\ players # <<>>
    /\ Len(players[1].draftedCards) < MaxDepth
    /\ \E i \in 1..Min(MaxChoice, Len(humanPack)) : humanPack[i] = card
    /\ Pick(card)

NextLong ==
    \/ \E s \in Sets, seed \in 1..NumSeeds : FetchDone(s, seed)
    \/ \E card \in CardIds : LongPick(card)
    \/ Undo

SpecLong == InitLong /\ [][NextLong]_vars

-----------------------------------------------------------------------------
(* The pack generator run on its own: a pool, then generatePack(pool) *)

\* cards of GenPool a pool may lack and still have 1 rare, 3 uncommons,
\* 10 commons that are no lands, and a basic land
Optional == {GenBase + 2, GenBase + 3, GenBase + 7, GenBase + 18, GenBase + 20}

GenPools == {SelectSeq(GenPool, LAMBDA id : id \notin out) : out \in SUBSET Optional}

\* pools without a basic land: GenPool without its lands, its commons only,
\* its rares and mythic only, a single uncommon
DegradedPools ==
    {SelectSeq(GenPool, LAMBDA id : ~IsBasicLand(id)),
     SelectSeq(GenPool, LAMBDA id : Card(id).rarity = "common" /\ ~IsBasicLand(id)),
     SelectSeq(GenPool, LAMBDA id : Card(id).rarity \in {"rare", "mythic"}),
     <<GenBase + 4>>}

\* the draws of one attempt that are explored
Draws(cs) ==
    LET nu == Len(ByRarity(cs, "uncommon"))
        nc == Len(ByRarity(cs, "common"))
    IN  [mythic : BOOLEAN, rare : 0..1,
         unc : {Rotation(nu, UncommonSlots, r) : r \in 0..Max(nu - 1, 0)},
         com : {Rotation(nc, CommonSlots, r) : r \in 0..Max(nc - 1, 0)},
         land : 0..1]

\* the draws of the attempts after the first: one that repeats the front of
\* the lists, one that takes their ends
Retries(cs) ==
    LET nu == Len(ByRarity(cs, "uncommon"))
        nc == Len(ByRarity(cs, "common"))
    IN  {[mythic |-> FALSE, rare |-> 0, unc |-> Rotation(nu, UncommonSlots, 0),
          com |-> Rotation(nc, CommonSlots, r), land |-> 1] : r \in {0, Max(nc - 1, 0)}}

RECURSIVE Streams(_, _)
Streams(cs, k) ==
    IF k = 1 THEN {<<d>> : d \in Draws(cs)}
    ELSE {Append(rnd, d) : rnd \in Streams(cs, k - 1), d \in Retries(cs)}

InitPack ==
    /\ Mount([s \in Sets |-> <<>>])
    /\ pool \in GenPools \cup DegradedPools
    /\ pack = <<>>

\* one call of generatePack(pool), rnd being the draws of its attempts
Generate(rnd) ==
    /\ pack = <<>>
    /\ pack' = generatePack(pool, rnd)
    /\ UNCHANGED <<cards, players, currentRound, currentPackIndex, draftComplete,
                   selectedSet, loadingCards, draftHistory, suggestedCardId,
                   cardStats, colorPairStats, scryfall, fetches, changes, moves,
                   pool, result, builtDeck>>

NextPack == \E rnd \in Streams(pool, MaxAttempts) : Generate(rnd)

SpecPack == InitPack /\ [][NextPack]_vars

-----------------------------------------------------------------------------
(* updatePlayerColors run on its own: a seat, then updatePlayerColors(seat) *)

\* the variables of the application that a function run does not use
NoApp ==
    /\ cards = <<>>
    /\ currentRound = 1
    /\ currentPackIndex = 0
    /\ draftComplete = FALSE
    /\ selectedSet = "dmu"
    /\ loadingCards = FALSE
    /\ draftHistory = <<>>
    /\ suggestedCardId = 0
    /\ scryfall = [s \in Sets |-> <<>>]
    /\ fetches = NoFetch
    /\ changes = 0
    /\ moves = 0
    /\ pool = <<>>
    /\ result = NoCall
    /\ builtDeck = <<>>

\* a seat as the tests build it
Seat(colors, drafted) ==
    [id |-> 1, colors |-> colors, draftedCards |-> drafted, sideboard |-> <<>>,
     packs |-> <<>>]

\* drafted cards: Djinn (U), Wrath (W), Ring (colourless), Balrog (B, R),
\* Orc (B)
DraftedCards == {1, 2, 8, 11, 17}

RECURSIVE DraftedLists(_)
DraftedLists(n) ==
    IF n = 0 THEN {<<>>}
    ELSE DraftedLists(n - 1)
         \cup {Append(d, c) : d \in {x \in DraftedLists(n - 1) : Len(x) = n - 1},
                               c \in DraftedCards}

\* the affinity before the update
PriorColors == {<<>>, <<"R", "G">>, <<"B">>}

InitColors ==
    /\ NoApp
    /\ players \in {<<Seat(c, d)>> : c \in PriorColors, d \in DraftedLists(MaxDrafted)}
    /\ pack = <<>>
    /\ cardStats = NoStats
    /\ colorPairStats = NoStats

\* one call of updatePlayerColors(player); result.value is the seat after it
UpdatePlayerColors ==
    /\ result = NoCall
    /\ result' = [fn |-> "updatePlayerColors", value |-> updatePlayerColors(players[1])]
    /\ UNCHANGED <<cards, players, currentRound, currentPackIndex, draftComplete,
                   selectedSet, loadingCards, draftHistory, suggestedCardId,
                   cardStats, colorPairStats, scryfall, fetches, changes, moves,
                   pool, pack, builtDeck>>

NextColors == UpdatePlayerColors

SpecColors == InitColors /\ [][NextColors]_vars

-----------------------------------------------------------------------------
(* The scoring functions run on their own: a seat, a pack and the          *)
(* statistics, then one call of aiPickCard, calculateCardScore or          *)
(* getColorPairBonus                                                       *)

\* the affinities of the seat: none, one colour, two colours in either
\* order, three colours
Affinities ==
    {<<>>, <<"W", "U", "B">>}
      \cup {<<c>> : c \in Range(COLORS)}
      \cup {cd \in Range(COLORS) \X Range(COLORS) : cd[1] # cd[2]}

\* the packs: none; three commons that differ in colour only (W, U, G) and a
\* fourth of higher mana value; Djinn, Wrath, Bear, Ring; Hobbit, Orc, Bolt,
\* Balrog
ScorePacks == {<<>>, <<GenBase + 12, GenBase + 8, GenBase + 16, GenBase + 17>>,
               <<1, 2, 4, 8>>, <<16, 17, 14, 11>>}

StatsInputs == {NoStats, DmuStats, SparseStats}

PairInputs == {NoStats, DmuPairStats, GuildPairStats, GuildOnlyStats}

\* the cardColors handed to getColorPairBonus
BonusColors ==
    {Null, <<>>, <<"U", "B">>, <<"B", "U">>, <<"W", "U">>, <<"R", "G">>}
      \cup {<<c>> : c \in Range(COLORS)}

InitScore ==
    /\ NoApp
    /\ players \in {<<Seat(c, <<>>)>> : c \in Affinities}
    /\ pack \in ScorePacks
    /\ cardStats \in StatsInputs
    /\ colorPairStats \in PairInputs

\* one call of aiPickCard(pack, aiPlayer)
AiPickCard ==
    /\ result = NoCall
    /\ result' = [fn |-> "aiPickCard",
                  value |-> aiPickCard(pack, players[1].colors, cardStats, colorPairStats)]
    /\ UNCHANGED <<cards, players, currentRound, currentPackIndex, draftComplete,
                   selectedSet, loadingCards, draftHistory, suggestedCardId,
                   cardStats, colorPairStats, scryfall, fetches, changes, moves,
                   pool, pack, builtDeck>>

\* one call of calculateCardScore(card, aiPlayer)
CalculateCardScore(card) ==
    /\ result = NoCall
    /\ card \in Range(pack)
    /\ result' = [fn |-> "calculateCardScore", card |-> card,
                  value |-> calculateCardScore(card, players[1].colors, cardStats,
                                               colorPairStats)]
    /\ UNCHANGED <<cards, players, currentRound, currentPackIndex, draftComplete,
                   selectedSet, loadingCards, draftHistory, suggestedCardId,
                   cardStats, colorPairStats, scryfall, fetches, changes, moves,
                   pool, pack, builtDeck>>

\* one call of getColorPairBonus(cardColors, aiColors, colorPairStats), aiColors
\* being the seat's colours or null
GetColorPairBonus(cardColors) ==
    /\ result = NoCall
    /\ \E aiColors \in {players[1].colors, Null} :
          result' = [fn |-> "getColorPairBonus", cardColors |-> cardColors,
                     aiColors |-> aiColors,
                     value |-> getColorPairBonus(cardColors, aiColors, colorPairStats)]
    /\ UNCHANGED <<cards, players, currentRound, currentPackIndex, draftComplete,
                   selectedSet, loadingCards, draftHistory, suggestedCardId,
                   cardStats, colorPairStats, scryfall, fetches, changes, moves,
                   pool, pack, builtDeck>>

NextScore ==
    \/ AiPickCard
    \/ \E card \in CardIds : CalculateCardScore(card)
    \/ \E cardColors \in BonusColors : GetColorPairBonus(cardColors)

SpecScore == InitScore /\ [][NextScore]_vars

-----------------------------------------------------------------------------
(* Deck building after a draft: the human drafted the cards of one of      *)
(* BuildLists, the deck is empty; result records the last command          *)

\* drafted cards: three white cards and a blue one; a black-red card, a
\* black card, an artifact and a basic land; four cards of four colours
BuildLists == {<<2, 15, 16, 1>>, <<11, 17, 8, 5>>, <<1, 3, 4, 7>>}

InitBuild ==
    /\ cards = <<>>
    /\ currentRound = NumRounds
    /\ currentPackIndex = 0
    /\ draftComplete = TRUE
    /\ selectedSet = "dmu"
    /\ loadingCards = FALSE
    /\ draftHistory = <<>>
    /\ suggestedCardId = 0
    /\ cardStats = NoStats
    /\ colorPairStats = NoStats
    /\ scryfall = [s \in Sets |-> <<>>]
    /\ fetches = NoFetch
    /\ changes = 0
    /\ moves = 0
    /\ result = NoCall
    /\ builtDeck = <<>>
    /\ players \in {<<Seat(<<>>, drafted)>> : drafted \in BuildLists}
    /\ NoGenerator

\* the deck-building view is rendered
BuildView == ~loadingCards /\ draftComplete

\* the cards shown as Drafted Cards: drafted cards and sideboard, without
\* the cards whose id is in the built deck
Available ==
    SelectSeq(players[1].draftedCards \o players[1].sideboard,
              LAMBDA c : ~Includes(builtDeck, c))

\* onAddToDeck of a card shown in Drafted Cards
AddToDeck(card) ==
    /\ BuildView
    /\ moves < MaxDeckMoves
    /\ Includes(Available, card)
    /\ builtDeck' = addToDeck(builtDeck, card)
    /\ moves' = moves + 1
    /\ result' = [fn |-> "addToDeck", card |-> card]
    /\ UNCHANGED <<cards, players, currentRound, currentPackIndex, draftComplete,
                   selectedSet, loadingCards, draftHistory, suggestedCardId,
                   cardStats, colorPairStats, scryfall, fetches, changes, pool, pack>>

\* onRemoveFromDeck of a card shown in Built Deck
RemoveFromDeck(card) ==
    /\ BuildView
    /\ moves < MaxDeckMoves
    /\ Includes(builtDeck, card)
    /\ builtDeck' = removeFromDeck(builtDeck, card)
    /\ moves' = moves + 1
    /\ result' = [fn |-> "removeFromDeck", card |-> card]
    /\ UNCHANGED <<cards, players, currentRound, currentPackIndex, draftComplete,
                   selectedSet, loadingCards, draftHistory, suggestedCardId,
                   cardStats, colorPairStats, scryfall, fetches, changes, pool, pack>>

\* onClick of Sort Deck: sortDeck(deckSort), criteria the option selected
SortDeck(criteria) ==
    /\ BuildView
    /\ moves < MaxDeckMoves
    /\ builtDeck' = sortDeck(builtDeck, criteria)
    /\ moves' = moves + 1
    /\ result' = [fn |-> "sortDeck", criteria |-> criteria]
    /\ UNCHANGED <<cards, players, currentRound, currentPackIndex, draftComplete,
                   selectedSet, loadingCards, draftHistory, suggestedCardId,
                   cardStats, colorPairStats, scryfall, fetches, changes, pool, pack>>

\* onClick of Suggest Lands
SuggestLands ==
    /\ BuildView
    /\ moves < MaxDeckMoves
    /\ builtDeck' = suggestLands(builtDeck)
    /\ moves' = moves + 1
    /\ result' = [fn |-> "suggestLands"]
    /\ UNCHANGED <<cards, players, currentRound, currentPackIndex, draftComplete,
                   selectedSet, loadingCards, draftHistory, suggestedCardId,
                   cardStats, colorPairStats, scryfall, fetches, changes, pool, pack>>

NextBuild ==
    \/ \E card \in CardIds : AddToDeck(card)
    \/ \E card \in DeckIds : RemoveFromDeck(card)
    \/ \E criteria \in {"cmc", "color"} : SortDeck(criteria)
    \/ SuggestLands

SpecBuild == InitBuild /\ [][NextBuild]_vars

-----------------------------------------------------------------------------
(* A draft to its end, the deck built from it, and a change of set: packs   *)
(* of 2                                                                     *)

\* a pick of the draft the deck is built from: the run is followed up to
\* the initialization of the draft of the next set
RedraftPick(card) == changes = 0 /\ Pick(card)

\* onAddToDeck while the built deck has fewer than MaxBuilt cards
RedraftAdd(card) == Len(builtDeck) < MaxBuilt /\ AddToDeck(card)

NextRedraft ==
    \/ \E s \in Sets : ChangeSet(s)
    \/ \E s \in Sets, seed \in 1..NumSeeds : FetchDone(s, seed)
    \/ \E card \in CardIds : RedraftPick(card)
    \/ SuggestPick
    \/ \E card \in CardIds : RedraftAdd(card)

SpecRedraft == InitDeck /\ [][NextRedraft]_vars

-----------------------------------------------------------------------------
(* Properties.  A property about handlePick or Undo Pick in a state is     *)
(* stated over the values handlePick and undoPick give there, which are    *)
(* the values the actions Pick and Undo install.                           *)

\* the number of times v occurs in the sequence s
Count(s, v) == Cardinality({i \in 1..Len(s) : s[i] = v})

\* s and t hold the same elements the same number of times
SameBag(s, t) ==
    /\ Len(s) = Len(t)
    /\ \A v \in Range(s) \cup Range(t) : Count(s, v) = Count(t, v)

\* the packs of one round, seat by seat
RoundPacks(ps, r) == [p \in 1..Len(ps) |-> ps[p].packs[r]]

\* no seat of ps has a card left in its pack of round r
NoCardsLeft(ps, r) == \A p \in 1..Len(ps) : ps[p].packs[r] = <<>>

\* the size of a pack generated from the loaded pool
FullPack == Len(generatePack(cards, <<DrawOf(cards, 1, 1, 1)>>))

\* the number of cards a seat holds
Holding(player) == Len(player.draftedCards) + Len(player.sideboard)

\* every card identifier a snapshot of the seats holds
CardsOf(ps) ==
    UNION {Range(ps[p].draftedCards) \cup Range(ps[p].sideboard)
           \cup UNION {Range(ps[p].packs[r]) : r \in 1..Len(ps[p].packs)}
           : p \in 1..Len(ps)}

\* what handlePick(card) gives in the current state
PickNow(card) ==
    handlePick(players, currentRound, currentPackIndex, draftHistory, card,
               cardStats, colorPairStats)

-----------------------------------------------------------------------------
\* C1: in rounds 1 and 3, after passPacks seat i holds the pack seat
\* (i-1) mod 8 held before the pass; in round 2 it holds the pack of seat
\* (i+1) mod 8.
C1_PassDirection ==
    players # <<>> =>
        \A r \in 1..NumRounds :
            \E after \in {passPacks(players, r)} :
                \A i \in 0..(NumPlayers - 1) :
                    LET from == IF r % 2 = 1 THEN (i - 1 + NumPlayers) % NumPlayers
                                ELSE (i + 1) % NumPlayers
                    IN  after[i + 1].packs[r] = players[from + 1].packs[r]

\* C2: passPacks permutes the packs of the round: whenever every pack has at
\* most one basic land, the 8 packs of the round after the pass are, as a
\* multiset, the 8 packs before it, and the packs of the other rounds and
\* the rest of every seat are untouched.
C2_PassPermutation ==
    players # <<>> =>
        \A r \in 1..NumRounds :
            (\A p \in 1..Len(players) : landCount(players[p].packs[r]) <= 1) =>
                \E after \in {passPacks(players, r)} :
                    /\ Len(after) = Len(players)
                    /\ SameBag(RoundPacks(after, r), RoundPacks(players, r))
                    /\ \A p \in 1..Len(players) :
                          after[p] = [players[p] EXCEPT !.packs[r] = after[p].packs[r]]

\* a pick and its pass have happened, and the seats hold different packs
C2_Witness ==
    /\ PackView
    /\ currentPackIndex > 0
    /\ \E p, q \in 1..Len(players) :
          players[p].packs[currentRound] # players[q].packs[currentRound]
    /\ RoundPacks(passPacks(players, currentRound), currentRound)
          # RoundPacks(players, currentRound)

\* C3: in every state where the pack is shown, for every card of the pack
\* whose pick does not end the round, Undo Pick right after the pick gives
\* back the seats (packs, drafted cards, sideboard, colours) and the pick
\* index of before the pick.
C3_UndoInvertsPick ==
    PackView =>
        \A card \in Range(humanPack) :
            \E next \in {PickNow(card)} :
                (next.currentPackIndex = currentPackIndex + 1) =>
                    /\ next.draftHistory # <<>>
                    /\ \E back \in {undoPick(next.draftHistory)} :
                          /\ back.players = players
                          /\ back.currentPackIndex = currentPackIndex

\* picks were made, cards sit in the sideboard, and a pick that does not end
\* the round can be made and undone
C3_Witness ==
    /\ PackView
    /\ currentRound > 1
    /\ players[1].sideboard # <<>>
    /\ players[1].draftedCards # <<>>
    /\ \E card \in Range(humanPack) :
          PickNow(card).currentPackIndex = currentPackIndex + 1

\* a step that is a pick made with 5 snapshots stored keeps the last 4 and
\* adds the snapshot of the state it leaves
OverflowStep ==
    (Len(draftHistory) = HistoryCap /\ currentPackIndex' = currentPackIndex + 1)
      => draftHistory' = Tail(draftHistory)
                           \o <<[players |-> players, packIndex |-> currentPackIndex]>>

\* C4: the undo history never holds more than 5 snapshots, and a pick made
\* with 5 snapshots stored leaves the last 4 of them, in order, followed by
\* the snapshot of the state the pick was made in.
C4_HistoryCap == [](Len(draftHistory) <= HistoryCap) /\ [][OverflowStep]_vars

\* six picks in a row: the sixth was made with 5 snapshots stored
C4_Witness ==
    /\ Len(draftHistory) = HistoryCap
    /\ currentPackIndex = HistoryCap + 1
    /\ draftHistory[1].packIndex = 1

\* C5 (as claimed): the undo history is empty right after a round advance
\* (pick index 0), after the draft completes and after a set change (cards
\* loading); hence no stored snapshot is a state of an earlier round or of a
\* set other than the one whose cards are loaded.
C5_HistoryOfThisRoundAndSet ==
    /\ (currentPackIndex = 0 \/ draftComplete \/ loadingCards) => draftHistory = <<>>
    /\ \A i \in 1..Len(draftHistory) :
          /\ CardsOf(draftHistory[i].players) \subseteq Range(cards)
          /\ \A r \in 1..(currentRound - 1) :
                NoCardsLeft(draftHistory[i].players, r)

\* what a step may do to the round and to draft-complete
RoundStep ==
    /\ (draftComplete' /\ ~draftComplete) =>
          /\ PackView
          /\ currentRound = NumRounds
          /\ \E card \in Range(humanPack) : players' = PickNow(card).players
          /\ NoCardsLeft(players', NumRounds)
    /\ (currentRound' > currentRound) =>
          /\ currentRound' = currentRound + 1
          /\ NoCardsLeft(players', currentRound)
    /\ (currentRound' < currentRound) => selectedSet' # selectedSet

\* C6: the draft becomes complete only by a pick made in round 3 that leaves
\* all round-3 packs empty; the round is always 1, 2 or 3, it grows only by 1
\* and only with all packs of the round left empty, and it decreases only
\* when the selected set changes.
C6_RoundProgress == [](currentRound \in 1..NumRounds) /\ [][RoundStep]_vars

\* a draft was completed by its last pick
C6_Witness ==
    /\ draftComplete
    /\ players # <<>>
    /\ \A r \in 1..NumRounds : NoCardsLeft(players, r)
    /\ Len(players[1].draftedCards) = NumRounds * FullPack

\* C7 (as claimed): a draft of full packs of N cards is complete after
\* exactly 3 N picks of the human, N per round, and before completion the
\* human never holds an empty pack while another seat's pack of the round
\* is not empty.
C7_CompleteAfterAllPicks ==
    players # <<>> =>
        /\ draftComplete => Len(players[1].draftedCards) = NumRounds * FullPack
        /\ (~draftComplete /\ Len(humanPack) = 0) => NoCardsLeft(players, currentRound)

\* C8 (as claimed): when a draft of full packs of N cards is complete, every
\* seat holds 3 N cards (the human: drafted cards plus sideboard), the 8
\* seats 24 N in all, and every pack of every round is empty.
C8_AllCardsDrafted ==
    (draftComplete /\ players # <<>>) =>
        /\ \A p \in 1..Len(players) : Holding(players[p]) = NumRounds * FullPack
        /\ \A r \in 1..NumRounds : NoCardsLeft(players, r)

\* the seat that takes over the pack of seat p (1-based) in a pass
TakerOf(p, round, n) == CHOOSE q \in 1..n : nextIndex(q - 1, round, n) = p - 1

\* C9: a pick is one turn of the whole table: handlePick(card) appends the
\* card to the human's drafted cards, takes exactly that card out of the
\* pack the human held, and has every opponent with a non-empty pack draft
\* exactly one card of the pack it held, that pack being passed on without
\* it; so in every state the 8 packs of the round have one size and the 8
\* seats have drafted the same number of cards.
C9_AtomicTurn ==
    players # <<>> =>
        /\ \A p \in 1..Len(players) :
              /\ Len(players[p].packs[currentRound]) = Len(humanPack)
              /\ Len(players[p].draftedCards) = Len(players[1].draftedCards)
        /\ PackView =>
              \A card \in Range(humanPack) :
                  \E next \in {PickNow(card).players} :
                      /\ next[1].draftedCards = Append(players[1].draftedCards, card)
                      /\ \A p \in 1..Len(players) :
                            \E passed \in {next[TakerOf(p, currentRound, Len(players))]
                                               .packs[currentRound]} :
                                /\ Len(passed) = Len(players[p].packs[currentRound]) - 1
                                /\ \E c \in Range(players[p].packs[currentRound]) :
                                      /\ (p = 1 => c = card)
                                      /\ passed = WithoutId(players[p].packs[currentRound], c)
                                      /\ next[p].draftedCards
                                            = Append(players[p].draftedCards, c)

\* round 1 after the first pick: the human has 1 drafted card and holds a
\* pack that lacks one card, every opponent has 1 drafted card
C9_Witness ==
    /\ PackView
    /\ currentRound = 1 /\ currentPackIndex = 1
    /\ Len(humanPack) = FullPack - 1
    /\ \A p \in 1..Len(players) : Len(players[p].draftedCards) = 1

\* the pool has a rare, 3 uncommons, 10 commons that are no lands, and a
\* basic land
PoolSuffices(cs) ==
    /\ Len(ByRarity(cs, "rare")) >= 1
    /\ Len(ByRarity(cs, "uncommon")) >= UncommonSlots
    /\ Len(SelectSeq(ByRarity(cs, "common"), LAMBDA id : ~IsBasicLand(id))) >= CommonSlots
    /\ Len(BasicLands(cs)) >= 1

\* C10: on a pool with a rare, 3 uncommons, 10 non-land commons and a basic
\* land (lands of rarity common), every pack generatePack returns has 15
\* cards: 1 rare or mythic, 3 uncommons, 10 commons that are no lands and
\* 1 basic land, all of different identifiers.
C10_PackTemplate ==
    (PoolSuffices(pool) /\ pack # <<>> /\ pack # RangeError) =>
        /\ Len(pack) = 1 + UncommonSlots + CommonSlots + 1
        /\ Len(ByRarity(pack, "rare")) + Len(ByRarity(pack, "mythic")) = 1
        /\ Len(ByRarity(pack, "uncommon")) = UncommonSlots
        /\ Len(SelectSeq(ByRarity(pack, "common"), LAMBDA id : ~IsBasicLand(id)))
             = CommonSlots
        /\ landCount(pack) = 1
        /\ Cardinality(Range(pack)) = Len(pack)

\* a pack was returned by a second attempt, for a pool whose lands are commons
C10_Witness ==
    /\ PoolSuffices(pool)
    /\ pack # <<>> /\ pack # RangeError
    /\ \E id \in Range(BasicLands(pool)) : Card(id).rarity = "common"
    /\ \E rnd \in Streams(pool, MaxAttempts) :
          /\ landCount(PackAttempt(pool, rnd[1])) # 1
          /\ pack = generatePack(pool, rnd)

\* C11 (as claimed): for a non-empty pool without a basic land, generatePack
\* returns a pack, and the pack has at least 1 and fewer than 15 cards.
C11_DegradedPoolAccepted ==
    (pool # <<>> /\ BasicLands(pool) = <<>> /\ pack # <<>>) =>
        /\ pack # RangeError
        /\ Len(pack) \in 1..(UncommonSlots + CommonSlots + 1)

\* the seat updatePlayerColors was called on, and the seat it left
Updated == result.fn = "updatePlayerColors"

\* C12 (as claimed): updatePlayerColors on a seat without drafted cards
\* leaves the affinity as it was, and no update brings a colour into the
\* affinity that is on none of the seat's drafted cards.
C12_KeepsPriorAffinity ==
    Updated =>
        LET before == players[1]
            after == result.value
        IN  /\ (before.draftedCards = <<>> => after.colors = before.colors)
            /\ \A c \in Range(after.colors) :
                   \/ c \in Range(before.colors)
                   \/ colorCount(before.draftedCards, c) > 0

\* C13 (as claimed): after updatePlayerColors on a seat with drafted cards,
\* every colour of the affinity is on at least one drafted card.
C13_AffinityIsDrafted ==
    (Updated /\ players[1].draftedCards # <<>>) =>
        \A c \in Range(result.value.colors) :
            \E i \in 1..Len(players[1].draftedCards) :
                Includes(Card(players[1].draftedCards[i]).colors, c)

\* the position of a colour in W,U,B,R,G
ColourRank(c) == CHOOSE i \in 1..Len(COLORS) : COLORS[i] = c

\* the occurrences of a colour on the cards of a list
Occurrences(drafted, c) ==
    Cardinality({<<i, j>> \in (1..Len(drafted)) \X (1..2) :
                   j <= Len(Card(drafted[i]).colors) /\ Card(drafted[i]).colors[j] = c})

\* colour a comes before colour b: more occurrences, or as many and earlier
\* in W,U,B,R,G
Before(drafted, a, b) ==
    \/ Occurrences(drafted, a) > Occurrences(drafted, b)
    \/ /\ Occurrences(drafted, a) = Occurrences(drafted, b)
       /\ ColourRank(a) < ColourRank(b)

C15_AffinityFollowsDrafted ==
    \A p \in 1..Len(players) :
        /\ players[p].draftedCards # <<>> =>
              players[p].colors = updatePlayerColors(players[p]).colors
        /\ (p = 1 /\ players[p].draftedCards = <<>>) => players[p].colors = <<>>

\* calculateCardScore was called, on the card result.card
Scored == result.fn = "calculateCardScore"

\* the card has no entry in cardStats
StatLess(id) == ~Has(cardStats, Card(id).name)

\* the colour-affinity bonus of the colours cs for the affinity aff
AffinityBonus(cs, aff) ==
    IF cs = <<>> THEN 3
    ELSE 5 * Cardinality({i \in 1..Len(cs) : cs[i] \in Range(aff)})
         + (IF Range(cs) \subseteq Range(aff) THEN 3 ELSE 0)

\* C16 (as claimed): with no colour-pair statistics, the score of a card
\* without statistics is its rarity/mana-value/type score plus the
\* colour-affinity bonus of the card's own colours, so it is strictly higher
\* than the score of a card of the pack that differs from it in colour only
\* when its colours are in the seat's affinity and the other's are not.
C16_OwnColoursCount ==
    (Scored /\ StatLess(result.card) /\ colorPairStats = NoStats) =>
        LET a == result.card
            aff == players[1].colors
        IN  /\ result.value = FallbackBranch(Card(a)) + 10 * AffinityBonus(Card(a).colors, aff)
            /\ \A b \in Range(pack) :
                  ( /\ StatLess(b)
                    /\ [Card(a) EXCEPT !.colors = <<>>] = [Card(b) EXCEPT !.colors = <<>>]
                    /\ Card(a).colors # <<>> /\ Card(b).colors # <<>>
                    /\ Range(Card(a).colors) \subseteq Range(aff)
                    /\ Range(Card(b).colors) \cap Range(aff) = {} )
                  => result.value > calculateCardScore(b, aff, cardStats, colorPairStats)

\* C17 (as claimed): the score of a card whose name has an entry in
\* cardStats is 1.5 gihwr + 0.8 ohwr + 0.7 gdwr (an absent rate being 0)
\* + 1.5 colorScore + colorPairBonus, and the score of a card whose name has
\* none is the rarity/mana-value/type score + colorScore + colorPairBonus
\* (all times 10).
C17_StatisticsBranch ==
    Scored =>
        LET c == Card(result.card)
            st == StatsFor(cardStats, c.name)
            info == cardColorInfo(st, c)
            cs == colorScore(info, players[1].colors)
            bonus == getColorPairBonus(info, players[1].colors, colorPairStats)
        IN  IF Has(cardStats, c.name)
            THEN result.value = 15 * st.gihwr + 8 * st.ohwr + 7 * st.gdwr + 15 * cs + bonus
            ELSE result.value = FallbackBranch(c) + 10 * cs + bonus

\* getColorPairBonus was called, on result.cardColors and result.aiColors
BonusAsked == result.fn = "getColorPairBonus"

\* the card's colours are all among the seat's
Fits(cardColors, aiColors) == Range(cardColors) \subseteq Range(aiColors)

\* C18: getColorPairBonus returns 0 when the candidate's colours are null
\* or empty, when the affinity is null or empty, and when some colour of
\* the candidate is not in the affinity, whatever colorPairStats holds.
C18_NoBonusOffColour ==
    BonusAsked =>
        ( ( \/ result.cardColors \in {Null, <<>>}
            \/ result.aiColors \in {Null, <<>>}
            \/ ~Fits(result.cardColors, result.aiColors) )
          => result.value = 0 )

\* a black-blue candidate for a white-blue seat got 0 although
\* colorPairStats has a win rate above 50 for the seat's pair
C18_Witness ==
    /\ BonusAsked
    /\ result.cardColors = <<"U", "B">>
    /\ result.aiColors = <<"W", "U">>
    /\ Has(colorPairStats, "Azorius (WU)") /\ colorPairStats["Azorius (WU)"] > 50
    /\ result.value = 0

\* the label of a pair of colours, whatever their order
GuildName ==
    [pair \in {{"W","U"}, {"U","B"}, {"B","R"}, {"R","G"}, {"G","W"},
               {"W","B"}, {"B","G"}, {"G","U"}, {"U","R"}, {"R","W"}} |->
       CASE pair = {"W","U"} -> "Azorius (WU)" [] pair = {"U","B"} -> "Dimir (UB)"
         [] pair = {"B","R"} -> "Rakdos (BR)"  [] pair = {"R","G"} -> "Gruul (RG)"
         [] pair = {"G","W"} -> "Selesnya (GW)" [] pair = {"W","B"} -> "Orzhov (WB)"
         [] pair = {"B","G"} -> "Golgari (BG)" [] pair = {"G","U"} -> "Simic (GU)"
         [] pair = {"U","R"} -> "Izzet (UR)"   [] pair = {"R","W"} -> "Boros (RW)"]

\* C19 (as claimed): for a two-colour affinity, in either order, and a
\* candidate whose colours are in it, the bonus is (win rate - 50) * 0.5
\* for the win rate of the pair's named label when colorPairStats has it,
\* else of 'Two-color', else of 'All Decks', and 0 when it has none of them
\* (times 10).
C19_FallbackLadder ==
    ( /\ BonusAsked
      /\ result.cardColors \notin {Null, <<>>}
      /\ result.aiColors # Null
      /\ Len(result.aiColors) = 2
      /\ Fits(result.cardColors, result.aiColors) )
    => LET label == GuildName[Range(result.aiColors)]
       IN  result.value =
             IF Has(colorPairStats, label) THEN (colorPairStats[label] - 50) * 5
             ELSE IF Has(colorPairStats, "Two-color")
                  THEN (colorPairStats["Two-color"] - 50) * 5
             ELSE IF Has(colorPairStats, "All Decks")
                  THEN (colorPairStats["All Decks"] - 50) * 5
             ELSE 0

\* the score calculateCardScore gives a card of the pack for the seat
ScoreOf(id) == calculateCardScore(id, players[1].colors, cardStats, colorPairStats)

\* C20: aiPickCard returns null (0) for an empty pack; otherwise it returns
\* a card of the pack that no card of the pack outscores and that every
\* card before it in the pack scores strictly less than.
C20_PicksFirstBest ==
    (result.fn = "aiPickCard") =>
        IF pack = <<>> THEN result.value = 0
        ELSE \E i \in 1..Len(pack) :
                /\ result.value = pack[i]
                /\ \A j \in 1..Len(pack) : ScoreOf(pack[j]) <= ScoreOf(pack[i])
                /\ \A j \in 1..(i - 1) : ScoreOf(pack[j]) < ScoreOf(pack[i])

\* a pick from a pack whose first three cards score the same and more than
\* the fourth: the first card is returned
C20_Witness ==
    /\ result.fn = "aiPickCard"
    /\ Len(pack) = 4
    /\ ScoreOf(pack[1]) = ScoreOf(pack[2]) /\ ScoreOf(pack[2]) = ScoreOf(pack[3])
    /\ ScoreOf(pack[4]) < ScoreOf(pack[1])
    /\ result.value = pack[1]

\* the step adds a card to the human's drafted cards, and drops no snapshot
\* of the history unless it ends the round: a pick
Picked ==
    /\ players # <<>> /\ players' # <<>>
    /\ Len(players'[1].draftedCards) = Len(players[1].draftedCards) + 1
    /\ \/ Len(draftHistory') >= Len(draftHistory)
       \/ currentRound' # currentRound
       \/ draftComplete' # draftComplete

\* what aiPickCard returns for the human's pack and affinity
Suggestion == aiPickCard(humanPack, players[1].colors, cardStats, colorPairStats)

\* a step that changes the hint and is no pick changes nothing else, is
\* taken with a pack shown, and toggles the hint
SuggestStep ==
    (suggestedCardId' # suggestedCardId /\ ~Picked) =>
        /\ PackView
        /\ UNCHANGED <<cards, players, currentRound, currentPackIndex, draftComplete,
                       selectedSet, loadingCards, draftHistory, cardStats,
                       colorPairStats, builtDeck>>
        /\ suggestedCardId' = IF suggestedCardId = Suggestion THEN 0 ELSE Suggestion

\* C21: Suggest Pick changes nothing but the hint (seats, packs, drafted
\* cards, affinity, round, pick index and undo history stay as they are); it
\* sets the hint to the card aiPickCard returns for the human's pack, and
\* clears the hint when the hint already is that card.
C21_SuggestReadOnly == [][SuggestStep]_vars

\* the hint shows the card aiPickCard returns for the pack on screen, after
\* a pick was made
C21_Witness ==
    /\ PackView
    /\ draftHistory # <<>>
    /\ suggestedCardId # 0
    /\ suggestedCardId = Suggestion

\* a pick leaves no hint
PickClearsHint == Picked => suggestedCardId' = 0

\* C22: right after every handlePick the suggested card identifier is null,
\* whatever it was before.
C22_PickClearsHint == [][PickClearsHint]_vars

\* a pack is shown with one of its cards suggested, so that the next pick
\* is made with a hint set
C22_Witness ==
    /\ PackView
    /\ suggestedCardId # 0
    /\ Includes(humanPack, suggestedCardId)
    /\ Len(humanPack) > 1

\* the seats are as initializeDraft creates them: nothing drafted, nothing
\* in a sideboard, three full packs each
FreshSeats ==
    /\ players # <<>>
    /\ \A p \in 1..Len(players) :
           /\ players[p].draftedCards = <<>>
           /\ players[p].sideboard = <<>>
           /\ \A r \in 1..NumRounds : Len(players[p].packs[r]) = FullPack

\* C23: after the selected set was changed, whenever the seats are the
\* re-created ones (nothing drafted, empty sideboards, full packs) the round
\* is 1, the pick index is 0, the draft is not complete and the undo history
\* is empty.
C23_SetChangeResets ==
    (changes > 0 /\ FreshSeats) =>
        /\ currentRound = 1
        /\ currentPackIndex = 0
        /\ ~draftComplete
        /\ draftHistory = <<>>

\* C24: once every card fetch has completed, the cards in the seats' packs
\* (and the cards drafted from them) are cards of the selected set, in
\* whatever order the fetches completed.
C24_PacksOfSelectedSet ==
    (fetches = NoFetch /\ players # <<>>) =>
        CardsOf(players) \subseteq Range(PoolOf(selectedSet))

\* C25: when the pool fetched for the selected set is empty or its fetch
\* failed, then once no fetch is in flight there are no seats and no packs,
\* the round is 1, the draft is not complete and the human has no current
\* pack.
C25_NoDraftWithoutCards ==
    (PoolOf(selectedSet) = <<>> /\ fetches = NoFetch) =>
        /\ players = <<>>
        /\ currentRound = 1
        /\ ~draftComplete
        /\ humanPack = <<>>
        /\ ~loadingCards

\* a handler called with an empty history or an empty pack returns without
\* throwing and leaves the state of the application as it was
InvalidCommandNoOp ==
    (result' # result) =>
        /\ ~result'.threw
        /\ UNCHANGED <<cards, players, currentRound, currentPackIndex, draftComplete,
                       selectedSet, loadingCards, draftHistory, suggestedCardId,
                       builtDeck>>

\* C26: undo with an empty undo history, and a pick issued while the
\* human's pack of the current round is empty, change nothing (no card is
\* drafted, no snapshot pushed, no AI pick, no pass) and do not throw.
C26_InvalidCommandsAreNoOps == [][InvalidCommandNoOp]_vars

\* C27: the built deck never holds two cards with the same identifier,
\* whatever addToDeck, removeFromDeck, sortDeck and suggestLands commands
\* were given, and addToDeck of a card whose identifier is in the deck leaves
\* the deck as it is.
C27_DistinctIds ==
    /\ \A i, j \in 1..Len(builtDeck) : i # j => builtDeck[i] # builtDeck[j]
    /\ \A card \in Range(builtDeck) : addToDeck(builtDeck, card) = builtDeck

\* the step is a Suggest Lands command
LandsSuggested == moves' = moves + 1 /\ result'.fn = "suggestLands"

\* the deck has a card with a colour
HasColour(deck) == \E i \in 1..Len(deck) : DeckCard(deck[i]).colors # <<>>

\* a Suggest Lands command on a deck with a coloured card appends 17 cards
SeventeenLands ==
    (LandsSuggested /\ HasColour(builtDeck)) =>
        Len(builtDeck') = Len(builtDeck) + TotalLandsNeeded

\* C28: for every built deck with at least one coloured card, suggestLands
\* appends exactly 17 land cards.
C28_SeventeenLands == [][SeventeenLands]_vars

\* the number of colour symbols c on the cards of the deck
Symbols(deck, c) ==
    Cardinality({<<i, j>> \in (1..Len(deck)) \X (1..2) :
                    /\ j <= Len(DeckCard(deck[i]).colors)
                    /\ DeckCard(deck[i]).colors[j] = c})

\* the land of a colour
LandOf == [c \in Range(COLORS) |->
             CASE c = "W" -> "Plains" [] c = "U" -> "Island" [] c = "B" -> "Swamp"
               [] c = "R" -> "Mountain" [] c = "G" -> "Forest"]

\* the number of cards named n in the sequence of cards
Named(deck, n) == Cardinality({i \in 1..Len(deck) : DeckCard(deck[i]).name = n})

\* a Suggest Lands command on a deck with a coloured card appends, for each
\* colour, the number of lands nearest to 17 times the colour's share of the
\* symbols (a half counts up), and nothing else
ProportionalLands ==
    (LandsSuggested /\ HasColour(builtDeck)) =>
        LET added == SubSeq(builtDeck', Len(builtDeck) + 1, Len(builtDeck'))
            total == Symbols(builtDeck, "W") + Symbols(builtDeck, "U")
                     + Symbols(builtDeck, "B") + Symbols(builtDeck, "R")
                     + Symbols(builtDeck, "G")
            lands(c) == Named(added, LandOf[c])
        IN  /\ SubSeq(builtDeck', 1, Len(builtDeck)) = builtDeck
            /\ \A i \in 1..Len(added) :
                   /\ "Basic Land" \in DeckCard(added[i]).type_line
                   /\ \E c \in Range(COLORS) : DeckCard(added[i]).name = LandOf[c]
            /\ \A c \in Range(COLORS) :
                   /\ 2 * total * lands(c)
                        <= 2 * TotalLandsNeeded * Symbols(builtDeck, c) + total
                   /\ 2 * TotalLandsNeeded * Symbols(builtDeck, c) + total
                        < 2 * total * (lands(c) + 1)
                   /\ Symbols(builtDeck, c) = 0 => lands(c) = 0
                   /\ Symbols(builtDeck, c) = total =>
                          lands(c) = TotalLandsNeeded /\ Len(added) = TotalLandsNeeded
                   /\ \A d \in Range(COLORS) :
                          Symbols(builtDeck, c) >= Symbols(builtDeck, d) =>
                              lands(c) >= lands(d)

SortKey(criteria, id) ==
    IF criteria = "cmc" THEN DeckCard(id).cmc
    ELSE IF DeckCard(id).colors = <<>> THEN 0
         ELSE LetterRank[DeckCard(id).colors[1]]

\* a Sort Deck command leaves the keys in non-decreasing order, and the cards
\* of each key are the cards that had it, in the order they were in
SortedDeck ==
    (moves' = moves + 1 /\ result'.fn = "sortDeck") =>
        LET criteria == result'.criteria
            WithKey(deck, k) == SelectSeq(deck, LAMBDA id : SortKey(criteria, id) = k)
        IN  /\ Len(builtDeck') = Len(builtDeck)
            /\ \A i, j \in 1..Len(builtDeck') :
                   i < j => SortKey(criteria, builtDeck'[i]) <= SortKey(criteria, builtDeck'[j])
            /\ \A id \in Range(builtDeck) \cup Range(builtDeck') :
                   WithKey(builtDeck', SortKey(criteria, id))
                     = WithKey(builtDeck, SortKey(criteria, id))

\* C30: sortDeck gives a permutation of the built deck; by 'cmc' the mana
\* values are non-decreasing (no mana value counts as 0), by 'color' the
\* first colour symbols are in non-decreasing lexical order with colourless
\* cards first; cards with equal keys keep their relative order.
C30_SortedDeck == [][SortedDeck]_vars

\* Sort Deck by 'cmc' was the last command: Hobbit (1) came to the front,
\* Djinn and Wrath (both 4) are in the order they were added in
C30_Witness ==
    /\ result = [fn |-> "sortDeck", criteria |-> "cmc"]
    /\ builtDeck = <<16, 1, 2>>

\* the basic lands in all packs of all seats, and those the seats hold
LandsInPacks ==
    Sum([k \in (1..Len(players)) \X (1..NumRounds) |->
            landCount(players[k[1]].packs[k[2]])],
        (1..Len(players)) \X (1..NumRounds))

LandsHeld ==
    Sum([p \in 1..Len(players) |->
            landCount(players[p].draftedCards) + landCount(players[p].sideboard)],
        1..Len(players))

C32_MovesOneCard ==
    players # <<>> =>
        \A card \in Range(players[1].draftedCards) :
            LET moved == moveToSideboard(players, card)
                back == moveFromSideboard(moved, card)
            IN  /\ Len(moved[1].draftedCards) = Len(players[1].draftedCards) - 1
                /\ Len(moved[1].sideboard) = Len(players[1].sideboard) + 1
                /\ Holding(moved[1]) = Holding(players[1])
                /\ SameBag(back[1].draftedCards, players[1].draftedCards)

\* the seats and pick index t are those a pick leaves when made in the
\* seats and pick index of the snapshot
PickedFrom(snap, ps, idx) ==
    /\ idx = snap.packIndex + 1
    /\ \E card \in Range(snap.players[1].packs[currentRound]) :
           ps = pickPlayers(snap.players, currentRound, card, cardStats, colorPairStats)

\* the stored snapshots are the states before the last picks, oldest first:
\* each is followed by the state its pick left, the newest by the current one
SnapshotChain ==
    /\ \A i \in 1..(Len(draftHistory) - 1) :
           PickedFrom(draftHistory[i], draftHistory[i + 1].players,
                      draftHistory[i + 1].packIndex)
    /\ draftHistory # <<>> =>
           PickedFrom(draftHistory[Len(draftHistory)], players, currentPackIndex)

\* a step that drops one snapshot without a change of set or round (an
\* undo) installs the newest snapshot and leaves the earlier ones as they are
UndoStep ==
    (/\ draftHistory # <<>>
     /\ Len(draftHistory') = Len(draftHistory) - 1
     /\ UNCHANGED <<selectedSet, currentRound, draftComplete>>) =>
        /\ players' = draftHistory[Len(draftHistory)].players
        /\ currentPackIndex' = draftHistory[Len(draftHistory)].packIndex
        /\ draftHistory' = SubSeq(draftHistory, 1, Len(draftHistory) - 1)

\* a pick that does not end the round leaves the stored snapshots as they
\* are (the oldest is dropped when 5 are stored) and adds one
KeepStep ==
    (currentPackIndex' = currentPackIndex + 1) =>
        /\ Len(draftHistory') = Min(Len(draftHistory) + 1, HistoryCap)
        /\ \A i \in 1..(Len(draftHistory') - 1) :
               draftHistory'[i]
                 = draftHistory[i + Len(draftHistory) + 1 - Len(draftHistory')]

\* C33: undo is last-in first-out over the kept snapshots: the snapshots
\* are the states before the last picks in order, an undo installs the
\* newest (seats and pick index) and removes only it, and a pick alters no
\* stored snapshot; so j undos after k picks give the state before the
\* (k-j+1)-th pick.
C33_UndoIsLifo == []SnapshotChain /\ [][UndoStep]_vars /\ [][KeepStep]_vars

\* six picks, then two undos: 3 snapshots are left at pick index 4
C33_Witness ==
    /\ PackView
    /\ currentPackIndex = HistoryCap - 1
    /\ Len(draftHistory) = HistoryCap - 2
    /\ draftHistory[1].packIndex = 1

-----------------------------------------------------------------------------
(* passPacks run on its own: seats holding packs, then passPacks(players,
   round) *)

\* the packs a seat holds: none, no land, one land, two and three distinct
\* lands, and the same land card twice (Plains 5, Island 6, Swamp 9)
LandPacks == {<<>>, <<1, 2>>, <<1, 5>>, <<5, 1, 6>>, <<6, 2, 9, 5>>, <<5, 5>>,
              <<2, 5, 1, 5>>}

\* the seats of a table of three, each holding the same pack in every round
PassSeats == 1..3

InitPass ==
    /\ NoApp
    /\ players \in [PassSeats -> {[Seat(<<>>, <<>>) EXCEPT
                                     !.packs = [r \in 1..NumRounds |-> pk]] :
                                  pk \in LandPacks}]
    /\ pack = <<>>
    /\ cardStats = NoStats
    /\ colorPairStats = NoStats

\* one call of passPacks(players, round); result.value is the seats after it
PassPacks(round) ==
    /\ result = NoCall
    /\ result' = [fn |-> "passPacks", round |-> round,
                  value |-> passPacks(players, round)]
    /\ UNCHANGED <<cards, players, currentRound, currentPackIndex, draftComplete,
                   selectedSet, loadingCards, draftHistory, suggestedCardId,
                   cardStats, colorPairStats, scryfall, fetches, changes, moves,
                   pool, pack, builtDeck>>

NextPass == \E round \in 1..NumRounds : PassPacks(round)

SpecPass == InitPass /\ [][NextPass]_vars

\* the cards of a pack that are no basic lands, in order
NonLands(pk) == SelectSeq(pk, LAMBDA id : ~IsBasicLand(id))

\* the pack seat p holds after the pass against the pack it received
Repaired(received, after) ==
    IF landCount(received) > 1
    THEN landCount(after) = 1 /\ NonLands(after) = NonLands(received)
    ELSE after = received

C35_PackSizeIsPickIndex ==
    (DraftView /\ players # <<>>) =>
        /\ currentPackIndex \in 0..(FullPack - 1)
        /\ \A p \in 1..Len(players) :
              Len(players[p].packs[currentRound]) = FullPack - currentPackIndex

\* after a pick the packs of the later rounds are what they were before it
\* and the packs of the earlier rounds are empty
PickFrame ==
    Picked =>
        \A p \in 1..Len(players), r \in 1..NumRounds :
            /\ r > currentRound => players'[p].packs[r] = players[p].packs[r]
            /\ r < currentRound => players'[p].packs[r] = <<>>

\* C36: a pick in round r changes only the packs of round r: the packs of
\* the later rounds stay as generated (not passed) until their round starts,
\* and the packs of the earlier rounds stay empty.
C36_PickChangesRoundPacksOnly == [][PickFrame]_vars

\* C37: in every state, also after an undo, the suggested-card identifier is
\* null or the identifier of a card of the human's pack of the current
\* round: no hint outlives a change of the human's pack.
C37_NoStaleHint == suggestedCardId = 0 \/ Includes(humanPack, suggestedCardId)

\* a step that installs seats as initializeDraft creates them leaves the
\* round 1, the pick index 0 and the undo history empty
InstallStep ==
    (players' # players /\ FreshSeats') =>
        /\ currentRound' = 1
        /\ currentPackIndex' = 0
        /\ draftHistory' = <<>>

\* a step that takes a snapshot off the undo history installs seats whose
\* cards are cards of the pool loaded
RestoreStep ==
    (Len(draftHistory') < Len(draftHistory) /\ players' # players /\ players' # <<>>) =>
        CardsOf(players') \subseteq Range(cards')

\* C38: whenever initializeDraft installs fresh seats the round is 1, the
\* pick index is 0 and the undo history is empty, so that no later undo
\* restores seats of a previous draft, also when two loads overlap and the
\* user picks between their completions.
C38_FreshSeatsFreshDraft == [][InstallStep]_vars /\ [][RestoreStep]_vars

\* the human's seat in the newest snapshot of a history
SavedSeat(hist) == hist[Len(hist)].players[1]

\* a step that drops one snapshot within a round (an undo) leaves the human
\* the drafted cards and the sideboard of the newest snapshot, in its order
UndoRevertsDeck ==
    (/\ draftHistory # <<>>
     /\ Len(draftHistory') = Len(draftHistory) - 1
     /\ currentRound' = currentRound /\ ~draftComplete') =>
        /\ players'[1].draftedCards = SavedSeat(draftHistory).draftedCards
        /\ players'[1].sideboard = SavedSeat(draftHistory).sideboard
        /\ players'[1].packs = SavedSeat(draftHistory).packs

\* a pick that stores a snapshot stores the drafted cards and the sideboard
\* as the moves and sorts before it left them
PickSavesDeck ==
    (Picked /\ currentPackIndex' = currentPackIndex + 1) =>
        /\ SavedSeat(draftHistory').draftedCards = players[1].draftedCards
        /\ SavedSeat(draftHistory').sideboard = players[1].sideboard

\* a step that is neither a pick nor an undo (a sideboard move, a sort)
\* leaves the stored snapshots as they are
MoveKeepsHistory ==
    (currentPackIndex' = currentPackIndex /\ currentRound' = currentRound
     /\ ~draftComplete') => draftHistory' = draftHistory

\* C39: undo restores the snapshot taken before the most recent pick as a
\* whole: the sideboard moves and sorts made after that pick are reverted
\* with it, those made before it are kept.
C39_UndoRevertsMoves ==
    [][UndoRevertsDeck]_vars /\ [][PickSavesDeck]_vars /\ [][MoveKeepsHistory]_vars

\* a card was moved to the sideboard before the most recent pick and the
\* sideboard was changed again after it: an undo is about to revert the
\* second move and keep the first
C39_Witness ==
    /\ PackView
    /\ draftHistory # <<>>
    /\ SavedSeat(draftHistory).sideboard # <<>>
    /\ players[1].sideboard # SavedSeat(draftHistory).sideboard

\* a step that changes the selected set leaves the built deck and the hint
\* as they are
SetChangeFrame ==
    selectedSet' # selectedSet =>
        builtDeck' = builtDeck /\ suggestedCardId' = suggestedCardId

\* a step that installs the seats of a new draft leaves the built deck and
\* the hint as they are
NewDraftFrame ==
    (/\ players' # players /\ players' # <<>>
     /\ \A p \in 1..Len(players') : Holding(players'[p]) = 0) =>
        builtDeck' = builtDeck /\ suggestedCardId' = suggestedCardId

\* C40: changing the selected set leaves the built deck and the
\* suggested-card identifier unchanged; the cards added to the built deck in
\* a draft are still in it after a new draft is initialized.
C40_SetChangeKeepsDeck == [][SetChangeFrame]_vars /\ [][NewDraftFrame]_vars

\* the set was changed and the seats of the new draft are installed while
\* the built deck holds cards of the draft before
C40_Witness ==
    /\ changes > 0
    /\ ~loadingCards
    /\ FreshSeats
    /\ builtDeck # <<>>
    /\ ~(Range(builtDeck) \subseteq Range(cards))

=============================================================================
